---- MODULE Spec2Model ----
(***************************************************************************)
(* State-machine model of the apiok front end (frontend/src/App.tsx):      *)
(* the multi-tab editing session, the persistence collaborator it talks    *)
(* to, and the drag-and-drop handlers of the request tree.                 *)
(*                                                                         *)
(* React semantics used throughout: a handler attached to a DOM event runs *)
(* against the values of the latest render; an async handler keeps the     *)
(* values it captured when it was called for the code after its await.     *)
(* A functional updater (setOpenTabs(tabs => ...)) receives the latest     *)
(* tab list but still reads the captured activeTabId of its closure.       *)
(***************************************************************************)
EXTENDS Integers, Sequences, FiniteSets, TLC

\* ---------------------------------------------------------------- bounds
MaxTabs == 2
MaxTabCounter == 2
MaxReqId == 2
MaxInflight == 2
MaxCalls == 1
RowHeight == 8
MaxFolderId == 2
MaxItemId == 3
MaxMouseY == 9
MaxTop == 2
MaxHeight == 5
MaxTreeFolders == 3
MaxTreeRequests == 2
MaxListedReqId == 3
MaxParams == 2

\* ------------------------------------------------------------- constants
\* activeTabId === '' (no active tab); tab ids 'tab-N' are the integers N
NoTab == -1
\* an undefined requestId / folder_id (falsy in the code's tests)
NoId == 0
Names == {"n1"}
DefaultName == "new"
HistoryName == "hist"
Urls == {"", "u1"}

VARIABLES
  openTabs,        \* RequestTab[]                      (useState, l.106)
  activeTabId,     \* id of the active tab or NoTab     (useState, l.111)
  tabCounter,      \* tabCounter.current                (useRef,   l.103)
  error,           \* user-visible error, "none" = null (useState, l.139)
  showSavePanel,   \* save-name panel shown             (useState, l.160)
  confirmModal,    \* pending confirmation closure      (useState, l.156)
  requests,        \* client snapshot of the persisted requests (tree rows)
  history,         \* client snapshot of the history list
  environments,    \* client snapshot of the environments (useState, l.93)
  folders,         \* client snapshot of the folder tree: id -> parent
  dragData,        \* drag payload slot                 (useState, l.100)
  dropTarget,      \* drop target slot                  (useState, l.101)
  dragGesture,     \* the browser's drag: "idle", "drag" or "dropped"
  inflight,        \* awaited collaborator calls and their continuations
  srvReqs,         \* persisted requests: id -> fields
  srvFolders,      \* persisted folders: id -> parent folder (NoId = root)
  srvHistory,      \* persisted history entries
  nextReqId,       \* next id the persistence layer assigns
  crashed,         \* an updater threw during render: the app is unmounted
  loading,         \* an execution is under way           (useState, l.138)
  pureCall         \* a call of a function on its own (utils/dragUtils, the
                   \* sibling lookups, the tab strip's checkOverflow): the
                   \* function, its arguments and, once run, its result

vars == <<openTabs, activeTabId, tabCounter, error, showSavePanel,
          confirmModal, requests, history, environments, folders, dragData,
          dropTarget, dragGesture, inflight, srvReqs, srvFolders, srvHistory,
          nextReqId, crashed, loading, pureCall>>

sessionVars == <<openTabs, activeTabId, tabCounter, showSavePanel,
                 confirmModal>>
dragVars == <<dragData, dropTarget, dragGesture>>
serverVars == <<srvReqs, srvFolders, srvHistory, nextReqId>>
snapshotVars == <<requests, history, environments, folders>>
appVars == <<openTabs, activeTabId, tabCounter, error, showSavePanel,
             confirmModal, requests, history, environments, folders,
             dragData, dropTarget, dragGesture, inflight, srvReqs, srvFolders, srvHistory,
             nextReqId, crashed, loading>>

\* ------------------------------------------------------- sequence helpers
RECURSIVE SelectSeqIdx(_, _, _)
\* Array.prototype.filter on the elements whose index satisfies keep
SelectSeqIdx(s, keep, i) ==
  IF i > Len(s) THEN <<>>
  ELSE (IF i \in keep THEN <<s[i]>> ELSE <<>>) \o SelectSeqIdx(s, keep, i + 1)

RemoveAt(s, i) == SelectSeqIdx(s, (1..Len(s)) \ {i}, 1)

\* Array.prototype.findIndex, 1-based; 0 when nothing matches (-1 in JS)
FindIndex(s, P(_)) ==
  IF \E i \in 1..Len(s) : P(s[i])
  THEN CHOOSE i \in 1..Len(s) : P(s[i]) /\ \A j \in 1..(i - 1) : ~P(s[j])
  ELSE 0

Min(a, b) == IF a < b THEN a ELSE b

\* tabs.map(t => t.id === id ? f(t) : t)
MapTab(tabs, id, f(_)) ==
  [i \in 1..Len(tabs) |-> IF tabs[i].id = id THEN f(tabs[i]) ELSE tabs[i]]

\* ------------------------------------------------------------- tab model
\* emptyParam(), l.85
emptyParam == [key |-> "", value |-> "", description |-> "", enabled |-> TRUE]

\* Object.entries(obj || {}).map(([key, value]) => ({key, value,
\* description: '', enabled: true})).concat([emptyParam()]), l.462-463 and
\* l.544; an object is the list of its entries in insertion order
rowsOf(entries) ==
  [k \in 1..Len(entries) |->
     [key |-> entries[k].key, value |-> entries[k].value,
      description |-> "", enabled |-> TRUE]] \o <<emptyParam>>

\* Object.fromEntries: a key keeps the place of its first entry and the
\* value of its last one
RECURSIVE fromEntries(_)
fromEntries(pairs) ==
  IF pairs = <<>> THEN <<>>
  ELSE LET n == Len(pairs)
           init == fromEntries(SubSeq(pairs, 1, n - 1))
           last == pairs[n]
       IN  IF \E k \in 1..Len(init) : init[k].key = last.key
           THEN [k \in 1..Len(init) |->
                   IF init[k].key = last.key THEN last ELSE init[k]]
           ELSE Append(init, last)

\* Object.fromEntries(rows.filter(h => h.key && h.enabled)
\*                        .map(h => [h.key, h.value])), l.417-418
sentParams(rows) ==
  LET kept == SelectSeq(rows, LAMBDA h : h.key # "" /\ h.enabled)
  IN  fromEntries([k \in 1..Len(kept) |->
                     [key |-> kept[k].key, value |-> kept[k].value]])

\* a draft that starts clean
emptyTabClean(id) ==
  [id |-> id, requestId |-> NoId, name |-> DefaultName, url |-> "",
   headers |-> <<emptyParam>>, queryParams |-> <<emptyParam>>,
   folder_id |-> NoId, response |-> "null", dirty |-> FALSE]

\* the initial tab (l.106-110) and the tab of newRequest() (l.472-476)
emptyTab(id) ==
  [id |-> id, requestId |-> NoId, name |-> DefaultName, url |-> "",
   headers |-> <<emptyParam>>, queryParams |-> <<emptyParam>>,
   folder_id |-> NoId, response |-> "null", dirty |-> TRUE]

TabIds == {openTabs[i].id : i \in 1..Len(openTabs)}

\* const currentTab = openTabs.find(t => t.id === activeTabId) || openTabs[0]
HasCurrentTab == Len(openTabs) > 0

currentTab ==
  LET i == FindIndex(openTabs, LAMBDA t : t.id = activeTabId)
  IN  IF i > 0 THEN openTabs[i] ELSE openTabs[1]

\* const currentRequest = { id: currentTab?.requestId, name: ... || '', ... }
currentRequest ==
  IF HasCurrentTab
  THEN [id |-> currentTab.requestId, name |-> currentTab.name,
        url |-> currentTab.url, headers |-> currentTab.headers,
        queryParams |-> currentTab.queryParams,
        folder_id |-> currentTab.folder_id]
  ELSE [id |-> NoId, name |-> "", url |-> "", headers |-> <<emptyParam>>,
        queryParams |-> <<emptyParam>>, folder_id |-> NoId]

\* setCurrentRequest(req), for the activeTabId its closure captured
setCurrentRequest(tabs, active, req) ==
  MapTab(tabs, active,
         LAMBDA t : [t EXCEPT !.requestId = req.id, !.name = req.name,
                              !.url = req.url, !.headers = req.headers,
                              !.queryParams = req.queryParams,
                              !.folder_id = req.folder_id,
                              !.dirty = TRUE])

\* a modal overlay covers the page and takes the pointer events
ModalOpen == showSavePanel \/ confirmModal # {}

\* ------------------------------------------------ awaited calls in flight
NoCur == [id |-> NoId, name |-> "", url |-> "", headers |-> <<emptyParam>>,
          queryParams |-> <<emptyParam>>, folder_id |-> NoId]
NoData ==
  [requests |-> <<>>, history |-> {}, environments |-> {}, folders |-> <<>>]
NoDrag == [type |-> "none", id |-> NoId]
NoDrop == [type |-> "none", position |-> "none", refId |-> NoId,
           refType |-> "none", targetFolderId |-> NoId]

\* one awaited call: what was sent, the values its continuation captured,
\* and (once served) the outcome
Op(kind) ==
  [kind |-> kind, phase |-> "sent", active |-> NoTab, tab |-> NoTab,
   cur |-> NoCur, name |-> "", id |-> NoId, data |-> NoData,
   folder |-> NoId, order |-> <<>>, then |-> "none", result |-> "null"]

LoadOp == Op("load")

\* awaited calls other than the reloads
Mutations == {i \in 1..Len(inflight) : inflight[i].kind # "load"}

CanIssue ==
  Len(inflight) < MaxInflight /\ Cardinality(Mutations) < MaxCalls

\* ids the persistence layer may still hand out to the creates in flight
PendingCreates ==
  Cardinality({i \in 1..Len(inflight) :
     inflight[i].kind = "save" /\ inflight[i].phase = "sent"
     /\ inflight[i].cur.id = NoId})

\* ------------------------------------------------------- session manager
\* loadRequest without the scan for an existing tab
loadRequestTabsNoScan(tabs, counter, r, req) ==
  [tabs |-> Append(tabs,
              [id |-> counter, requestId |-> r, name |-> req.name,
               url |-> req.url, headers |-> rowsOf(req.headers),
               queryParams |-> rowsOf(req.query_params),
               folder_id |-> req.folder_id,
               response |-> "null", dirty |-> FALSE]),
   active |-> counter, counter |-> counter + 1, opened |-> TRUE]

\* loadRequest opening the tab dirty
loadRequestTabsDirty(tabs, counter, r, req) ==
  LET existing == FindIndex(tabs, LAMBDA t : t.requestId = r)
  IN  IF existing > 0
      THEN [tabs |-> tabs, active |-> tabs[existing].id, counter |-> counter,
            opened |-> FALSE]
      ELSE [tabs |-> Append(tabs,
                       [id |-> counter, requestId |-> r, name |-> req.name,
                        url |-> req.url, headers |-> rowsOf(req.headers),
                        queryParams |-> rowsOf(req.query_params),
                        folder_id |-> req.folder_id,
                        response |-> "null", dirty |-> TRUE]),
            active |-> counter, counter |-> counter + 1, opened |-> TRUE]

\* loadRequest(req), l.456-468
loadRequestTabs(tabs, counter, r, req) ==
  LET existing == FindIndex(tabs, LAMBDA t : t.requestId = r)
  IN  IF existing > 0
      THEN [tabs |-> tabs, active |-> tabs[existing].id, counter |-> counter,
            opened |-> FALSE]
      ELSE [tabs |-> Append(tabs,
                       [id |-> counter, requestId |-> r, name |-> req.name,
                        url |-> req.url, headers |-> rowsOf(req.headers),
                        queryParams |-> rowsOf(req.query_params),
                        folder_id |-> req.folder_id,
                        response |-> "null", dirty |-> FALSE]),
            active |-> counter, counter |-> counter + 1, opened |-> TRUE]

LoadRequest(r) ==
  /\ ~crashed /\ ~ModalOpen
  /\ r \in DOMAIN requests
  /\ LET res == loadRequestTabs(openTabs, tabCounter, r, requests[r])
     IN  /\ res.opened => (Len(openTabs) < MaxTabs /\ tabCounter <= MaxTabCounter)
         /\ openTabs' = res.tabs
         /\ activeTabId' = res.active
         /\ tabCounter' = res.counter
  /\ UNCHANGED <<error, showSavePanel, confirmModal, inflight,
                 crashed>>
  /\ UNCHANGED <<snapshotVars, dragVars, serverVars>>
  /\ UNCHANGED <<pureCall, loading>>

\* newRequest(folderId?), l.470-479; every caller passes no folderId
NewRequest ==
  /\ ~crashed /\ ~ModalOpen
  /\ Len(openTabs) < MaxTabs /\ tabCounter <= MaxTabCounter
  /\ openTabs' = Append(openTabs, emptyTab(tabCounter))
  /\ activeTabId' = tabCounter
  /\ tabCounter' = tabCounter + 1
  /\ UNCHANGED <<error, showSavePanel, confirmModal, inflight,
                 crashed>>
  /\ UNCHANGED <<snapshotVars, dragVars, serverVars>>
  /\ UNCHANGED <<pureCall, loading>>

\* loadFromHistory(h), l.540-554; the history entries carry no request
\* headers
LoadFromHistory(h) ==
  /\ ~crashed /\ ~ModalOpen
  /\ h \in history
  /\ Len(openTabs) < MaxTabs /\ tabCounter <= MaxTabCounter
  /\ openTabs' = Append(openTabs,
                    [id |-> tabCounter, requestId |-> NoId,
                     name |-> HistoryName, url |-> h,
                     headers |-> rowsOf(<<>>), queryParams |-> <<emptyParam>>,
                     folder_id |-> NoId,
                     response |-> "hist", dirty |-> TRUE])
  /\ activeTabId' = tabCounter
  /\ tabCounter' = tabCounter + 1
  /\ UNCHANGED <<error, showSavePanel, confirmModal, inflight,
                 crashed>>
  /\ UNCHANGED <<snapshotVars, dragVars, serverVars>>
  /\ UNCHANGED <<pureCall, loading>>

\* a field editor's onChange: setCurrentRequest({...currentRequest, url}),
\* l.926 (method, body, headers and queryParams go the same way)
editedTabs(u) ==
  setCurrentRequest(openTabs, activeTabId, [currentRequest EXCEPT !.url = u])

EditField(u) ==
  /\ ~crashed /\ ~ModalOpen
  /\ HasCurrentTab
  /\ u # currentRequest.url
  /\ openTabs' = editedTabs(u)
  /\ UNCHANGED <<activeTabId, tabCounter, error, showSavePanel,
                 confirmModal, inflight, crashed>>
  /\ UNCHANGED <<snapshotVars, dragVars, serverVars>>
  /\ UNCHANGED <<pureCall, loading>>

\* the editors of the rows of the params table (l.942-950) and of the
\* headers table (l.961-969); list is "queryParams" or "headers"
withParams(list, rows) ==
  setCurrentRequest(openTabs, activeTabId, [currentRequest EXCEPT ![list] = rows])

ParamEditable(list, i) ==
  /\ ~crashed /\ ~ModalOpen
  /\ HasCurrentTab
  /\ i \in 1..Len(currentRequest[list])

ParamFrame ==
  /\ UNCHANGED <<activeTabId, tabCounter, error, showSavePanel,
                 confirmModal, inflight, crashed>>
  /\ UNCHANGED <<snapshotVars, dragVars, serverVars>>
  /\ UNCHANGED <<pureCall, loading>>

\* the key editor that adds no row after the last one
keyEditedNoPush(rows, i, v) == [rows EXCEPT ![i].key = v]

\* onChange of the key input, l.945 and l.964: a key typed in the last row
\* adds an empty row after it
keyEdited(rows, i, v) ==
  LET edited == [rows EXCEPT ![i].key = v]
  IN  IF i = Len(edited) /\ v # "" THEN Append(edited, emptyParam)
      ELSE edited

EditParamKey(list, i, v) ==
  /\ ParamEditable(list, i)
  /\ v # currentRequest[list][i].key
  /\ Len(keyEdited(currentRequest[list], i, v)) <= MaxParams
  /\ openTabs' = withParams(list, keyEdited(currentRequest[list], i, v))
  /\ ParamFrame

\* onChange of the value input, l.946 and l.965
EditParamValue(list, i, v) ==
  /\ ParamEditable(list, i)
  /\ v # currentRequest[list][i].value
  /\ openTabs' = withParams(list, [currentRequest[list] EXCEPT ![i].value = v])
  /\ ParamFrame

\* onChange of the description input, l.947 and l.966
EditParamDescription(list, i, v) ==
  /\ ParamEditable(list, i)
  /\ v # currentRequest[list][i].description
  /\ openTabs' = withParams(list,
                    [currentRequest[list] EXCEPT ![i].description = v])
  /\ ParamFrame

\* onChange of the checkbox, l.944 and l.963
ToggleParam(list, i) ==
  /\ ParamEditable(list, i)
  /\ openTabs' = withParams(list,
                    [currentRequest[list] EXCEPT ![i].enabled = ~@])
  /\ ParamFrame

\* onClick of the remove button, l.948 and l.967; the button is rendered
\* for the rows that have a key
paramRemoved(rows, i) ==
  LET rest == SelectSeqIdx(rows, (1..Len(rows)) \ {i}, 1)
  IN  IF rest = <<>> \/ rest[Len(rest)].key # "" THEN Append(rest, emptyParam)
      ELSE rest

RemoveParam(list, i) ==
  /\ ParamEditable(list, i)
  /\ currentRequest[list][i].key # ""
  /\ openTabs' = withParams(list, paramRemoved(currentRequest[list], i))
  /\ ParamFrame

\* onClick of a tab: setActiveTabId(tab.id), l.871
TabClick(t) ==
  /\ ~crashed /\ ~ModalOpen
  /\ t \in TabIds /\ t # activeTabId
  /\ activeTabId' = t
  /\ UNCHANGED <<openTabs, tabCounter, error, showSavePanel,
                 confirmModal, inflight, crashed>>
  /\ UNCHANGED <<snapshotVars, dragVars, serverVars>>
  /\ UNCHANGED <<pureCall, loading>>

\* closeTab(tabId), l.481-493, run with the activeTabId its closure holds.
\* remaining[Math.min(idx, remaining.length - 1)] is undefined when the tab
\* is no longer in the list (idx = -1): reading .id of it throws.
closeTab(tabs, active, captured, tabId) ==
  LET keep == {i \in 1..Len(tabs) : tabs[i].id # tabId}
      remaining == SelectSeqIdx(tabs, keep, 1)
      idx == FindIndex(tabs, LAMBDA t : t.id = tabId)
      k == Min(idx, Len(remaining))
  IN  IF captured = tabId
      THEN IF Len(remaining) > 0
           THEN IF k = 0
                THEN [tabs |-> tabs, active |-> active, threw |-> TRUE]
                ELSE [tabs |-> remaining, active |-> remaining[k].id,
                      threw |-> FALSE]
           ELSE [tabs |-> remaining, active |-> NoTab, threw |-> FALSE]
      ELSE [tabs |-> remaining, active |-> active, threw |-> FALSE]

\* the close button of a tab or "close this tab" of its menu, l.875, l.1063
CloseTab(t) ==
  /\ ~crashed /\ ~ModalOpen
  /\ t \in TabIds
  /\ LET res == closeTab(openTabs, activeTabId, activeTabId, t)
     IN  /\ openTabs' = res.tabs
         /\ activeTabId' = res.active
         /\ crashed' = res.threw
  /\ UNCHANGED <<tabCounter, error, showSavePanel, confirmModal,
                 inflight>>
  /\ UNCHANGED <<snapshotVars, dragVars, serverVars>>
  /\ UNCHANGED <<pureCall, loading>>

\* closeOtherTabs that leaves the active tab as it was
closeOtherTabsKeepActive(tabs, active, tabId) ==
  LET keep == {i \in 1..Len(tabs) : tabs[i].id = tabId}
  IN  IF keep = {}
      THEN [tabs |-> tabs, active |-> active]
      ELSE [tabs |-> SelectSeqIdx(tabs, keep, 1), active |-> active]

\* closeOtherTabs(tabId), l.495-502
closeOtherTabs(tabs, active, tabId) ==
  LET keep == {i \in 1..Len(tabs) : tabs[i].id = tabId}
  IN  IF keep = {}
      THEN [tabs |-> tabs, active |-> active]
      ELSE [tabs |-> SelectSeqIdx(tabs, keep, 1), active |-> tabId]

CloseOtherTabs(t) ==
  /\ ~crashed /\ ~ModalOpen
  /\ t \in TabIds
  /\ Len(openTabs) > 1
  /\ LET res == closeOtherTabs(openTabs, activeTabId, t)
     IN  /\ openTabs' = res.tabs
         /\ activeTabId' = res.active
  /\ UNCHANGED <<tabCounter, error, showSavePanel, confirmModal,
                 inflight, crashed>>
  /\ UNCHANGED <<snapshotVars, dragVars, serverVars>>
  /\ UNCHANGED <<pureCall, loading>>

\* closeAllTabs(), l.504
CloseAllTabs ==
  /\ ~crashed /\ ~ModalOpen
  /\ Len(openTabs) > 0
  /\ openTabs' = <<>>
  /\ activeTabId' = NoTab
  /\ UNCHANGED <<tabCounter, error, showSavePanel, confirmModal,
                 inflight, crashed>>
  /\ UNCHANGED <<snapshotVars, dragVars, serverVars>>
  /\ UNCHANGED <<pureCall, loading>>

\* ------------------------------------------------------------------ save
\* handleSaveClick(), l.444-447
HandleSaveClick ==
  /\ ~crashed /\ ~ModalOpen
  /\ HasCurrentTab
  /\ showSavePanel' = TRUE
  /\ UNCHANGED <<openTabs, activeTabId, tabCounter, error, confirmModal,
                 inflight, crashed>>
  /\ UNCHANGED <<snapshotVars, dragVars, serverVars>>
  /\ UNCHANGED <<pureCall, loading>>

\* onClick of the save panel's overlay or of its cancel button, l.1165/1170
SavePanelDismiss ==
  /\ ~crashed /\ showSavePanel
  /\ showSavePanel' = FALSE
  /\ UNCHANGED <<openTabs, activeTabId, tabCounter, error,
                 confirmModal, inflight, crashed>>
  /\ UNCHANGED <<snapshotVars, dragVars, serverVars>>
  /\ UNCHANGED <<pureCall, loading>>

\* saveRequest(nameOverride) up to its await, l.414-431: what is sent and
\* what the continuation keeps (activeTabId, currentRequest, nameOverride)
saveRequestCall(nameOverride) ==
  [Op("save") EXCEPT !.active = activeTabId, !.cur = currentRequest,
                     !.name = nameOverride,
                     !.tab = IF HasCurrentTab THEN currentTab.id ELSE NoTab]

\* const name = nameOverride || currentRequest.name, l.416
SentName(op) == IF op.name # "" THEN op.name ELSE op.cur.name

\* the text of the save-name input when the user confirms: the name that
\* handleSaveClick put there (l.445), or what was typed over it (l.1168);
\* the input is read nowhere else and every opening of the panel resets it
SaveNames == (Names \cup {currentRequest.name}) \ {""}

\* handleSaveConfirm(), l.449-454, up to the await inside saveRequest
HandleSaveConfirm(saveName) ==
  /\ ~crashed /\ showSavePanel
  /\ saveName # ""
  /\ CanIssue
  /\ currentRequest.id = NoId => nextReqId + PendingCreates <= MaxReqId
  /\ inflight' = Append(inflight, saveRequestCall(saveName))
  /\ UNCHANGED <<openTabs, activeTabId, tabCounter, error, showSavePanel,
                 confirmModal, crashed>>
  /\ UNCHANGED <<snapshotVars, dragVars, serverVars>>
  /\ UNCHANGED <<pureCall, loading>>

\* handleSaveConfirm() run again (the save button, Enter in the name
\* input, l.1168-1171) while the panel is still open for a save that is
\* awaited: nothing in l.449-454 or in the panel looks at the first call
HandleSaveConfirmAgain(saveName) ==
  /\ ~crashed /\ showSavePanel
  /\ saveName # ""
  /\ Len(inflight) < MaxInflight
  /\ \E i \in 1..Len(inflight) : inflight[i].kind = "save"
  /\ currentRequest.id = NoId => nextReqId + PendingCreates <= MaxReqId
  /\ inflight' = Append(inflight, saveRequestCall(saveName))
  /\ UNCHANGED <<openTabs, activeTabId, tabCounter, error, showSavePanel,
                 confirmModal, crashed>>
  /\ UNCHANGED <<snapshotVars, dragVars, serverVars>>
  /\ UNCHANGED <<pureCall, loading>>

\* saveRequest after its await, l.431-441
saveRequestDone(tabs, op) ==
  LET bound == IF op.cur.id # NoId THEN tabs
               ELSE setCurrentRequest(tabs, op.active,
                      [op.cur EXCEPT !.id = op.id, !.name = SentName(op)])
  IN  IF op.name # ""
      THEN MapTab(bound, op.active,
                  LAMBDA t : [t EXCEPT !.name = SentName(op), !.dirty = FALSE])
      ELSE MapTab(bound, op.active, LAMBDA t : [t EXCEPT !.dirty = FALSE])

\* the continuation of handleSaveConfirm once the update/create call has
\* succeeded: l.431-438, then l.452-453
SaveComplete(i) ==
  /\ ~crashed
  /\ i \in 1..Len(inflight)
  /\ inflight[i].kind = "save" /\ inflight[i].phase = "ok"
  /\ openTabs' = saveRequestDone(openTabs, inflight[i])
  /\ inflight' = Append(RemoveAt(inflight, i), LoadOp)
  /\ showSavePanel' = FALSE
  /\ UNCHANGED <<activeTabId, tabCounter, error, confirmModal, crashed>>
  /\ UNCHANGED <<snapshotVars, dragVars, serverVars>>
  /\ UNCHANGED <<pureCall, loading>>

\* a failed save that clears the dirty flag all the same
SaveFailedClean(i) ==
  /\ ~crashed
  /\ i \in 1..Len(inflight)
  /\ inflight[i].kind = "save" /\ inflight[i].phase = "sent"
  /\ error' = "save"
  /\ openTabs' = MapTab(openTabs, inflight[i].active,
                        LAMBDA t : [t EXCEPT !.dirty = FALSE])
  /\ inflight' = RemoveAt(inflight, i)
  /\ showSavePanel' = FALSE
  /\ UNCHANGED <<activeTabId, tabCounter, confirmModal, crashed>>
  /\ UNCHANGED <<snapshotVars, dragVars, serverVars>>
  /\ UNCHANGED <<pureCall, loading>>

\* the same continuation when the call has failed (network error or a
\* response that is not ok, client.ts l.14-17; nothing was persisted):
\* the catch of l.439-441, then l.452-453
SaveFailed(i) ==
  /\ ~crashed
  /\ i \in 1..Len(inflight)
  /\ inflight[i].kind = "save" /\ inflight[i].phase = "sent"
  /\ error' = "save"
  /\ inflight' = RemoveAt(inflight, i)
  /\ showSavePanel' = FALSE
  /\ UNCHANGED <<openTabs, activeTabId, tabCounter, confirmModal, crashed>>
  /\ UNCHANGED <<snapshotVars, dragVars, serverVars>>
  /\ UNCHANGED <<pureCall, loading>>

\* ---------------------------------------------------------------- delete
\* deleteRequest(id), l.506-517: stores the onConfirm closure, which keeps
\* the openTabs and the closeTab (hence the activeTabId) of this render
deleteRequestClosure(id) ==
  LET i == FindIndex(openTabs, LAMBDA t : t.requestId = id)
  IN  [id |-> id, tab |-> IF i > 0 THEN openTabs[i].id ELSE NoTab,
       active |-> activeTabId]

DeleteRequest(id) ==
  /\ ~crashed /\ ~ModalOpen
  /\ id \in DOMAIN requests
  /\ confirmModal' = {deleteRequestClosure(id)}
  /\ UNCHANGED <<openTabs, activeTabId, tabCounter, error, showSavePanel,
                 inflight, crashed>>
  /\ UNCHANGED <<snapshotVars, dragVars, serverVars>>
  /\ UNCHANGED <<pureCall, loading>>

\* onClick of the confirm modal's overlay or cancel button, l.1153/1157
ConfirmDismiss ==
  /\ ~crashed /\ confirmModal # {}
  /\ confirmModal' = {}
  /\ UNCHANGED <<openTabs, activeTabId, tabCounter, error, showSavePanel,
                 inflight, crashed>>
  /\ UNCHANGED <<snapshotVars, dragVars, serverVars>>
  /\ UNCHANGED <<pureCall, loading>>

\* confirmModal.onConfirm up to its await, l.509-510
ConfirmOk ==
  /\ ~crashed /\ confirmModal # {}
  /\ CanIssue
  /\ \E c \in confirmModal :
       /\ inflight' = Append(inflight,
            [Op("delete") EXCEPT !.id = c.id, !.tab = c.tab,
                                 !.active = c.active])
  /\ UNCHANGED <<openTabs, activeTabId, tabCounter, error, showSavePanel,
                 confirmModal, crashed>>
  /\ UNCHANGED <<snapshotVars, dragVars, serverVars>>
  /\ UNCHANGED <<pureCall, loading>>

\* onConfirm after its await, l.511-514
DeleteComplete(i) ==
  /\ ~crashed
  /\ i \in 1..Len(inflight)
  /\ inflight[i].kind = "delete" /\ inflight[i].phase = "ok"
  /\ LET op == inflight[i]
         res == IF op.tab # NoTab
                THEN closeTab(openTabs, activeTabId, op.active, op.tab)
                ELSE [tabs |-> openTabs, active |-> activeTabId,
                      threw |-> FALSE]
     IN  /\ openTabs' = res.tabs
         /\ activeTabId' = res.active
         /\ crashed' = res.threw
  /\ inflight' = Append(RemoveAt(inflight, i), LoadOp)
  /\ confirmModal' = {}
  /\ UNCHANGED <<tabCounter, error, showSavePanel>>
  /\ UNCHANGED <<snapshotVars, dragVars, serverVars>>
  /\ UNCHANGED <<pureCall, loading>>

\* a rejected delete call: nothing catches it and the rest of onConfirm
\* does not run
DeleteFailed(i) ==
  /\ ~crashed
  /\ i \in 1..Len(inflight)
  /\ inflight[i].kind = "delete" /\ inflight[i].phase = "sent"
  /\ inflight' = RemoveAt(inflight, i)
  /\ UNCHANGED <<sessionVars, error, crashed>>
  /\ UNCHANGED <<snapshotVars, dragVars, serverVars>>
  /\ UNCHANGED <<pureCall, loading>>

\* ---------------------------------------------------------------- reload
\* what runs after loadData() has returned: nothing for the callers that do
\* not await it, the finally of handleDrop (l.370-373) for a drop
afterLoad(op) ==
  /\ dragData' = IF op.then = "finally" THEN NoDrag ELSE dragData
  /\ dropTarget' = IF op.then = "finally" THEN NoDrop ELSE dropTarget
  /\ dragGesture' = dragGesture

\* loadData() that patches the lists of requests and folders only
LoadCompleteTreeOnly(i) ==
  /\ ~crashed
  /\ i \in 1..Len(inflight)
  /\ inflight[i].kind = "load" /\ inflight[i].phase = "ok"
  /\ requests' = inflight[i].data.requests
  /\ folders' = inflight[i].data.folders
  /\ afterLoad(inflight[i])
  /\ inflight' = RemoveAt(inflight, i)
  /\ UNCHANGED <<sessionVars, error, crashed, history, environments>>
  /\ UNCHANGED serverVars
  /\ UNCHANGED <<pureCall, loading>>

\* loadData() after its await when all four lists arrived, l.254-259; no
\* persisted environment is the active one (l.258-259)
LoadComplete(i) ==
  /\ ~crashed
  /\ i \in 1..Len(inflight)
  /\ inflight[i].kind = "load" /\ inflight[i].phase = "ok"
  /\ requests' = inflight[i].data.requests
  /\ history' = inflight[i].data.history
  /\ environments' = inflight[i].data.environments
  /\ folders' = inflight[i].data.folders
  /\ afterLoad(inflight[i])
  /\ inflight' = RemoveAt(inflight, i)
  /\ UNCHANGED <<sessionVars, error, crashed>>
  /\ UNCHANGED serverVars
  /\ UNCHANGED <<pureCall, loading>>

\* loadData() when one of the four calls failed: the catch of l.260-262
LoadFailed(i) ==
  /\ ~crashed
  /\ i \in 1..Len(inflight)
  /\ inflight[i].kind = "load" /\ inflight[i].phase = "sent"
  /\ error' = "load"
  /\ afterLoad(inflight[i])
  /\ inflight' = RemoveAt(inflight, i)
  /\ UNCHANGED <<sessionVars, crashed>>
  /\ UNCHANGED <<snapshotVars, serverVars>>
  /\ UNCHANGED <<pureCall, loading>>

\* ------------------------------------------------------------ drag utils
\* calcGapPosition with the midpoint itself counted as above
calcGapPositionAtMid(mouseY, top, height) ==
  IF 2 * mouseY <= 2 * top + height THEN "before" ELSE "after"

\* calcGapPosition(mouseY, {top, height}), l.1187-1193:
\* mouseY < top + height / 2, compared on doubled values
calcGapPosition(mouseY, top, height) ==
  IF 2 * mouseY < 2 * top + height THEN "before" ELSE "after"

\* reorderList that ignores the position and always inserts after
reorderListAfter(items, dragId, refId, position) ==
  IF ~\E k \in 1..Len(items) : items[k] = dragId
  THEN items
  ELSE LET remaining ==
             SelectSeqIdx(items, {k \in 1..Len(items) : items[k] # dragId}, 1)
           refIndex == FindIndex(remaining, LAMBDA x : x = refId) - 1
       IN  IF refIndex = -1
           THEN items
           ELSE SubSeq(remaining, 1, refIndex + 1) \o <<dragId>>
                  \o SubSeq(remaining, refIndex + 2, Len(remaining))

\* reorderList without the early return of l.1205: the item that was not
\* found is spliced in all the same
reorderListNoFind(items, dragId, refId, position) ==
  LET remaining ==
        SelectSeqIdx(items, {k \in 1..Len(items) : items[k] # dragId}, 1)
      refIndex == FindIndex(remaining, LAMBDA x : x = refId) - 1
  IN  IF refIndex = -1
      THEN items
      ELSE LET insertIndex == IF position = "before" THEN refIndex
                              ELSE refIndex + 1
           IN  SubSeq(remaining, 1, insertIndex) \o <<dragId>>
                 \o SubSeq(remaining, insertIndex + 1, Len(remaining))

\* reorderList without the early return of l.1209: splice takes the index
\* -1 of the reference that was not found as the place before the last
\* element
reorderListNoRef(items, dragId, refId, position) ==
  IF ~\E k \in 1..Len(items) : items[k] = dragId
  THEN items
  ELSE LET remaining ==
             SelectSeqIdx(items, {k \in 1..Len(items) : items[k] # dragId}, 1)
           refIndex == FindIndex(remaining, LAMBDA x : x = refId) - 1
           insertIndex == IF position = "before" THEN refIndex
                          ELSE refIndex + 1
           start == IF insertIndex >= 0 THEN insertIndex
                    ELSE IF Len(remaining) + insertIndex > 0
                         THEN Len(remaining) + insertIndex ELSE 0
       IN  SubSeq(remaining, 1, start) \o <<dragId>>
             \o SubSeq(remaining, start + 1, Len(remaining))

\* reorderList(items, dragId, refId, position), l.1198-1215; the callers keep
\* only the ids of the result (l.342, l.346), so items are the ids
reorderList(items, dragId, refId, position) ==
  IF ~\E k \in 1..Len(items) : items[k] = dragId
  THEN items
  ELSE LET remaining ==
             SelectSeqIdx(items, {k \in 1..Len(items) : items[k] # dragId}, 1)
           refIndex == FindIndex(remaining, LAMBDA x : x = refId) - 1
       IN  IF refIndex = -1
           THEN items
           ELSE LET insertIndex == IF position = "before" THEN refIndex
                                   ELSE refIndex + 1
                IN  SubSeq(remaining, 1, insertIndex) \o <<dragId>>
                      \o SubSeq(remaining, insertIndex + 1, Len(remaining))

\* isValidDrop that accepts every gap for a request or a folder
isValidDropAnyGap(dragType, target) ==
  IF target.type = "gap" \/ target.type = "folder"
  THEN dragType = "request" \/ dragType = "folder"
  ELSE FALSE

\* isValidDrop(dragType, dropTarget), l.1224-1249
isValidDrop(dragType, target) ==
  IF target.type = "gap"
  THEN CASE dragType = "request" -> target.refType = "request"
         [] dragType = "folder" -> target.refType = "folder"
         [] OTHER -> FALSE
  ELSE IF target.type = "folder"
  THEN CASE dragType = "request" -> TRUE
         [] dragType = "folder" -> TRUE
         [] OTHER -> FALSE
  ELSE FALSE

\* one call of each function, for arguments fixed at the start
NoCall == [fn |-> "none"]

ReorderList ==
  /\ pureCall.fn = "reorderList" /\ ~pureCall.done
  /\ pureCall' = [pureCall EXCEPT
                    !.done = TRUE,
                    !.out = reorderList(pureCall.items, pureCall.dragId,
                                        pureCall.refId, pureCall.position)]
  /\ UNCHANGED appVars

CalcGapPosition ==
  /\ pureCall.fn = "calcGapPosition" /\ ~pureCall.done
  /\ pureCall' = [pureCall EXCEPT
                    !.done = TRUE,
                    !.out = calcGapPosition(pureCall.mouseY, pureCall.top,
                                            pureCall.height)]
  /\ UNCHANGED appVars

IsValidDrop ==
  /\ pureCall.fn = "isValidDrop" /\ ~pureCall.done
  /\ pureCall' = [pureCall EXCEPT
                    !.done = TRUE,
                    !.out = isValidDrop(pureCall.dragType, pureCall.target)]
  /\ UNCHANGED appVars

\* ----------------------------------------------------------- request tree
\* The snapshots hold the tree flat: every request with its folder_id, every
\* folder with its parent_folder_id; a sibling list is the items of one
\* parent in the order the lists arrive in (sort_order, then list position).
RECURSIVE SortIds(_, _)
SortIds(S, items) ==
  IF S = {} THEN <<>>
  ELSE LET m == CHOOSE x \in S : \A y \in S :
                  \/ items[x].sort_order < items[y].sort_order
                  \/ items[x].sort_order = items[y].sort_order /\ x <= y
       IN  <<m>> \o SortIds(S \ {m}, items)

\* getSiblingRequests(refId), l.300-317
getSiblingRequests(reqs, refId) ==
  IF refId \notin DOMAIN reqs THEN <<>>
  ELSE SortIds({r \in DOMAIN reqs : reqs[r].folder_id = reqs[refId].folder_id},
               reqs)

\* getSiblingFolders that returns the folders of every parent
getSiblingFoldersAll(flds, refId) ==
  IF refId \notin DOMAIN flds THEN <<>>
  ELSE SortIds(DOMAIN flds, flds)

\* getSiblingFolders(refId), l.320-336
getSiblingFolders(flds, refId) ==
  IF refId \notin DOMAIN flds THEN <<>>
  ELSE SortIds({f \in DOMAIN flds :
                  flds[f].parent_folder_id = flds[refId].parent_folder_id},
               flds)

\* GET /folders/tree: the folders under a parent, ordered, each with its
\* children and its requests; GET /folders/standalone-requests: the
\* requests of no folder
RECURSIVE folderTree(_, _, _)
folderTree(reqs, flds, parent) ==
  LET ids == SortIds({f \in DOMAIN flds : flds[f].parent_folder_id = parent},
                     flds)
  IN  [k \in 1..Len(ids) |->
         [id |-> ids[k],
          children |-> folderTree(reqs, flds, ids[k]),
          requests |-> SortIds({r \in DOMAIN reqs :
                                  reqs[r].folder_id = ids[k]}, reqs)]]

standaloneOf(reqs) ==
  SortIds({r \in DOMAIN reqs : reqs[r].folder_id = NoId}, reqs)

IdsOf(flds) == [k \in 1..Len(flds) |-> flds[k].id]

NotFound == [found |-> FALSE, list |-> <<>>]

\* searchFolders of getSiblingRequests that looks at the folders of one
\* level only
RECURSIVE searchRequestsShallow(_, _)
searchRequestsShallow(flds, refId) ==
  IF flds = <<>> THEN NotFound
  ELSE LET folder == Head(flds)
       IN  IF \E k \in 1..Len(folder.requests) : folder.requests[k] = refId
           THEN [found |-> TRUE, list |-> folder.requests]
           ELSE searchRequestsShallow(Tail(flds), refId)

\* searchFolders(flds) of getSiblingRequests, l.306-315: the for loop over
\* flds as a recursion on the rest of the list; null is NotFound
RECURSIVE searchRequests(_, _)
searchRequests(flds, refId) ==
  IF flds = <<>> THEN NotFound
  ELSE LET folder == Head(flds)
       IN  IF \E k \in 1..Len(folder.requests) : folder.requests[k] = refId
           THEN [found |-> TRUE, list |-> folder.requests]
           ELSE LET found == searchRequests(folder.children, refId)
                IN  IF found.found THEN found
                    ELSE searchRequests(Tail(flds), refId)

\* getSiblingRequests(refId), l.300-317, on the lists the client holds: the
\* standalone requests and the tree of folders
siblingRequestsIn(standalone, tree, refId) ==
  IF \E k \in 1..Len(standalone) : standalone[k] = refId
  THEN standalone
  ELSE searchRequests(tree, refId).list

\* searchFolders(flds) of getSiblingFolders, l.325-334
RECURSIVE searchChildren(_, _)
searchChildren(flds, refId) ==
  IF flds = <<>> THEN NotFound
  ELSE LET folder == Head(flds)
       IN  IF \E k \in 1..Len(folder.children) :
                  folder.children[k].id = refId
           THEN [found |-> TRUE, list |-> IdsOf(folder.children)]
           ELSE LET found == searchChildren(folder.children, refId)
                IN  IF found.found THEN found
                    ELSE searchChildren(Tail(flds), refId)

\* getSiblingFolders(refId), l.320-336
siblingFoldersIn(tree, refId) ==
  IF \E k \in 1..Len(tree) : tree[k].id = refId
  THEN IdsOf(tree)
  ELSE searchChildren(tree, refId).list

\* one call of each lookup, for a tree and an id fixed at the start
GetSiblingRequests ==
  /\ pureCall.fn = "getSiblingRequests" /\ ~pureCall.done
  /\ pureCall' = [pureCall EXCEPT
                    !.done = TRUE,
                    !.out = siblingRequestsIn(
                              standaloneOf(pureCall.reqs),
                              folderTree(pureCall.reqs, pureCall.flds, NoId),
                              pureCall.refId)]
  /\ UNCHANGED appVars

GetSiblingFolders ==
  /\ pureCall.fn = "getSiblingFolders" /\ ~pureCall.done
  /\ pureCall' = [pureCall EXCEPT
                    !.done = TRUE,
                    !.out = siblingFoldersIn(
                              folderTree(pureCall.reqs, pureCall.flds, NoId),
                              pureCall.refId)]
  /\ UNCHANGED appVars

RECURSIVE ancestorsOf(_, _, _)
ancestorsOf(flds, f, fuel) ==
  IF fuel = 0 \/ f \notin DOMAIN flds THEN {}
  ELSE IF flds[f].parent_folder_id = NoId THEN {}
  ELSE {flds[f].parent_folder_id}
         \cup ancestorsOf(flds, flds[f].parent_folder_id, fuel - 1)

\* folder f is folder root itself or one of its descendants
inSubtree(flds, root, f) ==
  f = root \/ root \in ancestorsOf(flds, f, Cardinality(DOMAIN flds))

\* the rows of the tree view, l.826-827, with the payload their onDragStart
\* passes (l.653, l.696; the payload's folderId is read nowhere)
TreeRows ==
  {[type |-> "request", id |-> r] : r \in DOMAIN requests}
    \cup {[type |-> "folder", id |-> f] : f \in DOMAIN folders}

\* ----------------------------------------------------------- drag and drop
\* handleDragStart(e, data), l.279-283
HandleDragStart(d) ==
  /\ ~crashed /\ ~ModalOpen
  /\ dragGesture = "idle"
  /\ d \in TreeRows
  /\ dragData' = d
  /\ dragGesture' = "drag"
  /\ UNCHANGED <<sessionVars, error, dropTarget, inflight, crashed>>
  /\ UNCHANGED <<snapshotVars, serverVars>>
  /\ UNCHANGED <<pureCall, loading>>

\* handleDragOver that records the target whatever the payload slot holds
handleDragOverAnyPayload(itemId, itemType, clientY, top, height) ==
  [NoDrop EXCEPT !.type = "gap",
                 !.position = calcGapPosition(clientY, top, height),
                 !.refId = itemId, !.refType = itemType]

\* handleDragOver(e, itemId, itemType), l.285-291
handleDragOver(itemId, itemType, clientY, top, height) ==
  IF dragData = NoDrag THEN dropTarget
  ELSE [NoDrop EXCEPT !.type = "gap",
                      !.position = calcGapPosition(clientY, top, height),
                      !.refId = itemId, !.refType = itemType]

\* handleFolderDragOver(e, folderId), l.293-297
handleFolderDragOver(folderId) ==
  IF dragData = NoDrag THEN dropTarget
  ELSE [NoDrop EXCEPT !.type = "folder", !.targetFolderId = folderId]

\* onDragOver of a folder row whose lower boundary belongs to the gap zone
FolderRowDragOverLowerGap(f, clientY) ==
  /\ ~crashed
  /\ dragGesture = "drag"
  /\ f \in DOMAIN folders
  /\ LET relativeY == clientY - 0
     IN  dropTarget' =
           IF 4 * relativeY < RowHeight \/ 4 * relativeY >= 3 * RowHeight
           THEN handleDragOver(f, "folder", clientY, 0, RowHeight)
           ELSE handleFolderDragOver(f)
  /\ UNCHANGED <<sessionVars, error, dragData, dragGesture, inflight,
                 crashed>>
  /\ UNCHANGED <<snapshotVars, serverVars>>
  /\ UNCHANGED <<pureCall, loading>>

\* onDragOver of a folder row, l.654-663, for a row at top 0 of height
\* RowHeight: threshold = height * 0.25, compared on values times four
FolderRowDragOver(f, clientY) ==
  /\ ~crashed
  /\ dragGesture = "drag"
  /\ f \in DOMAIN folders
  /\ LET relativeY == clientY - 0
     IN  dropTarget' =
           IF 4 * relativeY < RowHeight \/ 4 * relativeY > 3 * RowHeight
           THEN handleDragOver(f, "folder", clientY, 0, RowHeight)
           ELSE handleFolderDragOver(f)
  /\ UNCHANGED <<sessionVars, error, dragData, dragGesture, inflight,
                 crashed>>
  /\ UNCHANGED <<snapshotVars, serverVars>>
  /\ UNCHANGED <<pureCall, loading>>

\* onDragOver of a request row, l.697
RequestRowDragOver(r, clientY) ==
  /\ ~crashed
  /\ dragGesture = "drag"
  /\ r \in DOMAIN requests
  /\ dropTarget' = handleDragOver(r, "request", clientY, 0, RowHeight)
  /\ UNCHANGED <<sessionVars, error, dragData, dragGesture, inflight,
                 crashed>>
  /\ UNCHANGED <<snapshotVars, serverVars>>
  /\ UNCHANGED <<pureCall, loading>>

\* one run of handleDrop(e) up to its first await, l.358-367, through
\* handleGapDrop (l.338-348) or handleFolderDrop (l.350-356): the call it
\* issues; a gap drop of mismatched kinds calls nothing and goes on to the
\* awaited loadData()
handleDrop ==
  IF dragData = NoDrag \/ dropTarget = NoDrop THEN <<>>
  ELSE LET drag == dragData
           target == dropTarget
       IN  IF target.type = "gap"
           THEN IF drag.type = "request" /\ target.refType = "request"
                THEN <<[Op("reorderRequests") EXCEPT !.id = drag.id, !.order =
                          reorderList(getSiblingRequests(requests, target.refId),
                                      drag.id, target.refId, target.position)]>>
                ELSE IF drag.type = "folder" /\ target.refType = "folder"
                THEN <<[Op("reorderFolders") EXCEPT !.id = drag.id, !.order =
                          reorderList(getSiblingFolders(folders, target.refId),
                                      drag.id, target.refId, target.position)]>>
                ELSE <<[LoadOp EXCEPT !.then = "finally"]>>
           ELSE IF drag.type = "request"
                THEN <<[Op("updateRequest") EXCEPT
                          !.id = drag.id, !.folder = target.targetFolderId]>>
                ELSE <<[Op("updateFolder") EXCEPT
                          !.id = drag.id, !.folder = target.targetFolderId]>>

\* a drop on a row: the row's onDrop (l.664, l.698) runs handleDrop, the
\* event bubbles and the tree view's onDrop (l.825) runs it again, both with
\* the slots of the same render
DropOnRow ==
  /\ ~crashed
  /\ dragGesture = "drag"
  /\ Len(inflight) + 2 <= MaxInflight
  /\ inflight' = inflight \o handleDrop \o handleDrop
  /\ dragGesture' = "dropped"
  /\ UNCHANGED <<sessionVars, error, dragData, dropTarget, crashed>>
  /\ UNCHANGED <<snapshotVars, serverVars>>
  /\ UNCHANGED <<pureCall, loading>>

\* a drop that puts the new order of the folders in memory before the call
\* is answered
DropOnTreeViewOptimistic ==
  /\ ~crashed
  /\ dragGesture = "drag"
  /\ Len(inflight) + 1 <= MaxInflight
  /\ inflight' = inflight \o handleDrop
  /\ dragGesture' = "dropped"
  /\ folders' = IF handleDrop # <<>> /\ handleDrop[1].kind = "reorderFolders"
                THEN [f \in DOMAIN folders |->
                        IF \E k \in 1..Len(handleDrop[1].order) :
                             handleDrop[1].order[k] = f
                        THEN [folders[f] EXCEPT !.sort_order =
                                (CHOOSE k \in 1..Len(handleDrop[1].order) :
                                   handleDrop[1].order[k] = f) - 1]
                        ELSE folders[f]]
                ELSE folders
  /\ UNCHANGED <<sessionVars, error, dragData, dropTarget, crashed>>
  /\ UNCHANGED <<requests, history, environments, serverVars>>
  /\ UNCHANGED <<pureCall, loading>>

\* a drop between the rows (a gap indicator, the empty-folder hint): only
\* the tree view's onDrop runs, l.825
DropOnTreeView ==
  /\ ~crashed
  /\ dragGesture = "drag"
  /\ Len(inflight) + 1 <= MaxInflight
  /\ inflight' = inflight \o handleDrop
  /\ dragGesture' = "dropped"
  /\ UNCHANGED <<sessionVars, error, dragData, dropTarget, crashed>>
  /\ UNCHANGED <<snapshotVars, serverVars>>
  /\ UNCHANGED <<pureCall, loading>>

\* handleDragEnd() that empties the payload slot only
HandleDragEndKeepTarget ==
  /\ ~crashed
  /\ dragGesture # "idle"
  /\ dragData' = NoDrag
  /\ dragGesture' = "idle"
  /\ UNCHANGED <<sessionVars, error, inflight, crashed, dropTarget>>
  /\ UNCHANGED <<snapshotVars, serverVars>>
  /\ UNCHANGED <<pureCall, loading>>

\* handleDragEnd(), l.376-379: the browser ends every drag with it, after
\* the drop if there was one
HandleDragEnd ==
  /\ ~crashed
  /\ dragGesture # "idle"
  /\ dragData' = NoDrag
  /\ dropTarget' = NoDrop
  /\ dragGesture' = "idle"
  /\ UNCHANGED <<sessionVars, error, inflight, crashed>>
  /\ UNCHANGED <<snapshotVars, serverVars>>
  /\ UNCHANGED <<pureCall, loading>>

DropCalls ==
  {"reorderRequests", "reorderFolders", "updateRequest", "updateFolder"}

\* handleDrop after its awaited call has succeeded: await loadData(), l.367
DropComplete(i) ==
  /\ ~crashed
  /\ i \in 1..Len(inflight)
  /\ inflight[i].kind \in DropCalls /\ inflight[i].phase = "ok"
  /\ inflight' = Append(RemoveAt(inflight, i), [LoadOp EXCEPT !.then = "finally"])
  /\ UNCHANGED <<sessionVars, error, crashed>>
  /\ UNCHANGED <<snapshotVars, dragVars, serverVars>>
  /\ UNCHANGED <<pureCall, loading>>

\* handleDrop when the call has failed: the catch and the finally, l.368-373
DropFailed(i) ==
  /\ ~crashed
  /\ i \in 1..Len(inflight)
  /\ inflight[i].kind \in DropCalls /\ inflight[i].phase = "sent"
  /\ error' = "drop"
  /\ dragData' = NoDrag
  /\ dropTarget' = NoDrop
  /\ inflight' = RemoveAt(inflight, i)
  /\ UNCHANGED <<sessionVars, dragGesture, crashed>>
  /\ UNCHANGED <<snapshotVars, serverVars>>
  /\ UNCHANGED <<pureCall, loading>>

\* ------------------------------------------- persistence collaborator
\* The collaborator serves each call at some moment between the call and
\* the moment the client's continuation runs; calls travel independently,
\* so they are served and answered in any order.
SetOp(i, op) == [inflight EXCEPT ![i] = op]

\* PUT /requests/{id}: a field the body leaves out is not changed
\* (JSON.stringify drops folder_id: undefined)
srvUpdate(reqs, id, name, cur) ==
  [reqs EXCEPT ![id] = [name |-> name, url |-> cur.url,
                        headers |-> sentParams(cur.headers),
                        query_params |-> sentParams(cur.queryParams),
                        folder_id |-> IF cur.folder_id = NoId
                                      THEN @.folder_id ELSE cur.folder_id,
                        sort_order |-> @.sort_order]]

\* POST /requests: the persistence layer assigns a fresh id
srvCreate(reqs, id, name, cur) ==
  [r \in DOMAIN reqs \cup {id} |->
     IF r = id THEN [name |-> name, url |-> cur.url,
                     headers |-> sentParams(cur.headers),
                     query_params |-> sentParams(cur.queryParams),
                     folder_id |-> cur.folder_id, sort_order |-> 0]
     ELSE reqs[r]]

\* DELETE /requests/{id}
srvDelete(reqs, id) == [r \in DOMAIN reqs \ {id} |-> reqs[r]]

ServeSave(i) ==
  /\ i \in 1..Len(inflight)
  /\ inflight[i].kind = "save" /\ inflight[i].phase = "sent"
  /\ LET op == inflight[i]
     IN  IF op.cur.id # NoId
         THEN /\ op.cur.id \in DOMAIN srvReqs
              /\ srvReqs' = srvUpdate(srvReqs, op.cur.id, SentName(op), op.cur)
              /\ nextReqId' = nextReqId
              /\ inflight' = SetOp(i, [op EXCEPT !.phase = "ok",
                                                 !.id = op.cur.id])
         ELSE /\ srvReqs' = srvCreate(srvReqs, nextReqId, SentName(op), op.cur)
              /\ nextReqId' = nextReqId + 1
              /\ inflight' = SetOp(i, [op EXCEPT !.phase = "ok",
                                                 !.id = nextReqId])
  /\ UNCHANGED <<sessionVars, error, crashed, srvFolders, srvHistory>>
  /\ UNCHANGED <<snapshotVars, dragVars>>
  /\ UNCHANGED <<pureCall, loading>>

ServeDelete(i) ==
  /\ i \in 1..Len(inflight)
  /\ inflight[i].kind = "delete" /\ inflight[i].phase = "sent"
  /\ inflight[i].id \in DOMAIN srvReqs
  /\ srvReqs' = srvDelete(srvReqs, inflight[i].id)
  /\ inflight' = SetOp(i, [inflight[i] EXCEPT !.phase = "ok"])
  /\ UNCHANGED <<sessionVars, error, crashed, srvFolders, srvHistory,
                 nextReqId>>
  /\ UNCHANGED <<snapshotVars, dragVars>>
  /\ UNCHANGED <<pureCall, loading>>

\* POST /requests/reorder, /folders/reorder: the position in the list is
\* the new sort order, counted from 0
srvReorder(items, ids) ==
  [x \in DOMAIN items |->
     IF \E k \in 1..Len(ids) : ids[k] = x
     THEN [items[x] EXCEPT !.sort_order =
             (CHOOSE k \in 1..Len(ids) : ids[k] = x) - 1]
     ELSE items[x]]

\* the calls of a drop; PUT /folders/{id} refuses a parent that lies in the
\* folder's own subtree, and an update of what does not exist fails
ServeDrop(i) ==
  /\ i \in 1..Len(inflight)
  /\ inflight[i].kind \in DropCalls /\ inflight[i].phase = "sent"
  /\ LET op == inflight[i]
         to == op.folder
     IN  /\ \/ /\ op.kind = "reorderRequests"
               /\ srvReqs' = srvReorder(srvReqs, op.order)
               /\ srvFolders' = srvFolders
            \/ /\ op.kind = "reorderFolders"
               /\ srvFolders' = srvReorder(srvFolders, op.order)
               /\ srvReqs' = srvReqs
            \/ /\ op.kind = "updateRequest"
               /\ op.id \in DOMAIN srvReqs /\ to \in DOMAIN srvFolders
               /\ srvReqs' = [srvReqs EXCEPT ![op.id].folder_id = to]
               /\ srvFolders' = srvFolders
            \/ /\ op.kind = "updateFolder"
               /\ op.id \in DOMAIN srvFolders /\ to \in DOMAIN srvFolders
               /\ ~inSubtree(srvFolders, op.id, to)
               /\ srvFolders' =
                    [srvFolders EXCEPT ![op.id].parent_folder_id = to]
               /\ srvReqs' = srvReqs
         /\ inflight' = SetOp(i, [op EXCEPT !.phase = "ok"])
  /\ UNCHANGED <<sessionVars, error, crashed, srvHistory, nextReqId>>
  /\ UNCHANGED <<snapshotVars, dragVars>>
  /\ UNCHANGED <<pureCall, loading>>

\* the environments earlier sessions left; none is the active one
PersistedEnvironments == {[name |-> "env", is_active |-> FALSE]}

\* GET /environments, /history, /folders/tree, /folders/standalone-requests
ServeLoad(i) ==
  /\ i \in 1..Len(inflight)
  /\ inflight[i].kind = "load" /\ inflight[i].phase = "sent"
  /\ inflight' = SetOp(i, [inflight[i] EXCEPT
                             !.phase = "ok",
                             !.data = [requests |-> srvReqs,
                                       history |-> srvHistory,
                                       environments |-> PersistedEnvironments,
                                       folders |-> srvFolders]])
  /\ UNCHANGED <<sessionVars, error, crashed>>
  /\ UNCHANGED <<snapshotVars, dragVars, serverVars>>
  /\ UNCHANGED <<pureCall, loading>>

\* ------------------------------------------------------------ execution
\* setResponse(resp), l.134-136, for the activeTabId its closure captured
setResponse(tabs, active, resp) ==
  MapTab(tabs, active, LAMBDA t : [t EXCEPT !.response = resp])

\* the send button, l.927: disabled={loading || !currentRequest.url}
CanExecute == ~loading /\ currentRequest.url # ""

\* executeRequest() up to its await, l.389-403
ExecuteRequest ==
  /\ ~crashed /\ ~ModalOpen
  /\ CanExecute
  /\ CanIssue
  /\ loading' = TRUE
  /\ error' = "none"
  /\ openTabs' = setResponse(openTabs, activeTabId, "null")
  /\ inflight' = Append(inflight, [Op("execute") EXCEPT
                                     !.active = activeTabId,
                                     !.cur = currentRequest,
                                     !.tab = currentTab.id])
  /\ UNCHANGED <<activeTabId, tabCounter, showSavePanel, confirmModal,
                 crashed>>
  /\ UNCHANGED <<snapshotVars, dragVars, serverVars>>
  /\ UNCHANGED pureCall

\* executeRequest after api.execute.adhoc has resolved, l.405-406 and the
\* finally of l.409-411; loadData() is not awaited
ExecuteComplete(i) ==
  /\ ~crashed
  /\ i \in 1..Len(inflight)
  /\ inflight[i].kind = "execute" /\ inflight[i].phase = "ok"
  /\ openTabs' = setResponse(openTabs, inflight[i].active, inflight[i].result)
  /\ inflight' = Append(RemoveAt(inflight, i), LoadOp)
  /\ loading' = FALSE
  /\ UNCHANGED <<activeTabId, tabCounter, error, showSavePanel, confirmModal,
                 crashed>>
  /\ UNCHANGED <<snapshotVars, dragVars, serverVars>>
  /\ UNCHANGED pureCall

\* executeRequest when the call has failed: the catch and the finally,
\* l.407-411
ExecuteFailed(i) ==
  /\ ~crashed
  /\ i \in 1..Len(inflight)
  /\ inflight[i].kind = "execute" /\ inflight[i].phase = "sent"
  /\ error' = "execute"
  /\ inflight' = RemoveAt(inflight, i)
  /\ loading' = FALSE
  /\ UNCHANGED <<sessionVars, crashed>>
  /\ UNCHANGED <<snapshotVars, dragVars, serverVars>>
  /\ UNCHANGED pureCall

\* the answer of the executor to the request it was sent
ExecuteResponse(cur) == IF cur.url = "u1" THEN "200 u1" ELSE "200"

\* the executor answers an execution
ServeExecute(i) ==
  /\ i \in 1..Len(inflight)
  /\ inflight[i].kind = "execute" /\ inflight[i].phase = "sent"
  /\ inflight' = SetOp(i, [inflight[i] EXCEPT
                             !.phase = "ok",
                             !.result = ExecuteResponse(inflight[i].cur)])
  /\ UNCHANGED <<sessionVars, error, crashed, loading>>
  /\ UNCHANGED <<snapshotVars, dragVars, serverVars>>
  /\ UNCHANGED pureCall

\* ------------------------------------------------- the editing session
InitialRequests ==
  {<<>>, <<[name |-> "n1", url |-> "u1",
            headers |-> <<[key |-> "a", value |-> "v"]>>,
            query_params |-> <<>>, folder_id |-> NoId, sort_order |-> 0]>>}

\* a tab counter that starts at the number of the initial tab
MountedCounterZero ==
  /\ openTabs = <<emptyTab(0)>>
  /\ activeTabId = 0
  /\ tabCounter = 0
  /\ error = "none"
  /\ showSavePanel = FALSE
  /\ confirmModal = {}
  /\ requests = <<>>
  /\ history = {}
  /\ environments = {}
  /\ folders = <<>>
  /\ dragData = NoDrag
  /\ dropTarget = NoDrop
  /\ dragGesture = "idle"
  /\ inflight = <<LoadOp>>
  /\ crashed = FALSE
  /\ loading = FALSE

\* the state after the first render and its mount effect (l.106-111,
\* l.172-173): one dirty draft tab, empty snapshots, the first loadData()
\* in flight; the persistence layer holds what earlier sessions left
Mounted ==
  /\ openTabs = <<emptyTab(0)>>
  /\ activeTabId = 0
  /\ tabCounter = 1
  /\ error = "none"
  /\ showSavePanel = FALSE
  /\ confirmModal = {}
  /\ requests = <<>>
  /\ history = {}
  /\ environments = {}
  /\ folders = <<>>
  /\ dragData = NoDrag
  /\ dropTarget = NoDrop
  /\ dragGesture = "idle"
  /\ inflight = <<LoadOp>>
  /\ crashed = FALSE
  /\ loading = FALSE

Init ==
  /\ Mounted
  /\ pureCall = NoCall
  /\ srvReqs \in InitialRequests
  /\ srvFolders = <<>>
  /\ srvHistory = {"u1"}
  /\ nextReqId = Len(srvReqs) + 1

\* a store with a tree to rearrange: two folders and a request, all at the
\* root
TreeRequests ==
  <<[name |-> "n1", url |-> "u1", headers |-> <<>>, query_params |-> <<>>,
     folder_id |-> NoId, sort_order |-> 0]>>

TreeFolders ==
  <<[parent_folder_id |-> NoId, sort_order |-> 0],
    [parent_folder_id |-> NoId, sort_order |-> 1]>>

InitDrag ==
  /\ Mounted
  /\ pureCall = NoCall
  /\ srvReqs = TreeRequests
  /\ srvFolders = TreeFolders
  /\ srvHistory = {"u1"}
  /\ nextReqId = Len(srvReqs) + 1

\* The tab strip, the request tree and the delete confirmation.
Next ==
  \/ \E r \in 1..MaxReqId : LoadRequest(r)
  \/ NewRequest
  \/ \E h \in Urls : LoadFromHistory(h)
  \/ \E u \in Urls : EditField(u)
  \/ \E t \in 0..MaxTabCounter : TabClick(t)
  \/ \E t \in 0..MaxTabCounter : CloseTab(t)
  \/ \E t \in 0..MaxTabCounter : CloseOtherTabs(t)
  \/ CloseAllTabs
  \/ \E r \in 1..MaxReqId : DeleteRequest(r)
  \/ ConfirmDismiss
  \/ ConfirmOk
  \/ \E i \in 1..MaxInflight : DeleteComplete(i)
  \/ \E i \in 1..MaxInflight : DeleteFailed(i)
  \/ \E i \in 1..MaxInflight : LoadComplete(i)
  \/ \E i \in 1..MaxInflight : LoadFailed(i)
  \/ \E i \in 1..MaxInflight : ServeDelete(i)
  \/ \E i \in 1..MaxInflight : ServeLoad(i)

Spec == Init /\ [][Next]_vars

\* The editor's save panel next to the tab strip, the tree and the delete
\* confirmation; the tabs keep the content they were opened with and are
\* saved under the name of the tab the editor shows.
NextSave ==
  \/ \E r \in 1..MaxReqId : LoadRequest(r)
  \/ NewRequest
  \/ \E t \in 0..MaxTabCounter : TabClick(t)
  \/ \E t \in 0..MaxTabCounter : CloseTab(t)
  \/ HandleSaveClick
  \/ SavePanelDismiss
  \/ HandleSaveConfirm(currentRequest.name)
  \/ \E i \in 1..MaxInflight : SaveComplete(i)
  \/ \E i \in 1..MaxInflight : SaveFailed(i)
  \/ \E r \in 1..MaxReqId : DeleteRequest(r)
  \/ ConfirmDismiss
  \/ ConfirmOk
  \/ \E i \in 1..MaxInflight : DeleteComplete(i)
  \/ \E i \in 1..MaxInflight : DeleteFailed(i)
  \/ \E i \in 1..MaxInflight : LoadComplete(i)
  \/ \E i \in 1..MaxInflight : LoadFailed(i)
  \/ \E i \in 1..MaxInflight : ServeSave(i)
  \/ \E i \in 1..MaxInflight : ServeDelete(i)
  \/ \E i \in 1..MaxInflight : ServeLoad(i)

SpecSave == Init /\ [][NextSave]_vars

\* Editing a tab while its save is awaited.
NextEdit ==
  \/ \E r \in 1..MaxReqId : LoadRequest(r)
  \/ \E u \in Urls : EditField(u)
  \/ \E t \in 0..MaxTabCounter : TabClick(t)
  \/ HandleSaveClick
  \/ SavePanelDismiss
  \/ \E n \in SaveNames : HandleSaveConfirm(n)
  \/ \E i \in 1..MaxInflight : SaveComplete(i)
  \/ \E i \in 1..MaxInflight : SaveFailed(i)
  \/ \E i \in 1..MaxInflight : LoadComplete(i)
  \/ \E i \in 1..MaxInflight : ServeSave(i)
  \/ \E i \in 1..MaxInflight : ServeLoad(i)

SpecEdit == Init /\ [][NextEdit]_vars

\* The tables of query parameters and of headers in the editor, next to
\* opening and creating tabs and saving drafts, one tab at a time (a tab is
\* opened when the tabs before it were closed): keys are edited and rows
\* removed
\* in both tables, the value and the description in the first row of the
\* headers, the checkbox in the first row of the query parameters.
ParamLists == {"queryParams", "headers"}
ParamKeys == {"", "a"}

\* a store with one saved request that has a header
ParamRequests ==
  <<[name |-> "n1", url |-> "u1",
     headers |-> <<[key |-> "a", value |-> "v"]>>,
     query_params |-> <<>>, folder_id |-> NoId, sort_order |-> 0]>>

InitParams ==
  /\ Mounted
  /\ pureCall = NoCall
  /\ srvReqs = ParamRequests
  /\ srvFolders = <<>>
  /\ srvHistory = {"u1"}
  /\ nextReqId = Len(srvReqs) + 1

NextParams ==
  \/ CloseAllTabs
  \/ \E r \in 1..MaxReqId : openTabs = <<>> /\ LoadRequest(r)
  \/ openTabs = <<>> /\ NewRequest
  \/ \E h \in Urls : openTabs = <<>> /\ LoadFromHistory(h)
  \/ \E list \in ParamLists, i \in 1..MaxParams, v \in ParamKeys :
       EditParamKey(list, i, v)
  \/ \E v \in {"", "v"} : EditParamValue("headers", 1, v)
  \/ \E v \in {"", "d"} : EditParamDescription("headers", 1, v)
  \/ ToggleParam("queryParams", 1)
  \/ \E list \in ParamLists, i \in 1..MaxParams : RemoveParam(list, i)
  \/ currentRequest.id = NoId /\ HandleSaveClick
  \/ HandleSaveConfirm(currentRequest.name)
  \/ \E i \in 1..MaxInflight : SaveComplete(i)
  \/ \E i \in 1..MaxInflight : LoadComplete(i)
  \/ \E i \in 1..MaxInflight : ServeSave(i)
  \/ \E i \in 1..MaxInflight : ServeLoad(i)

SpecParams == InitParams /\ [][NextParams]_vars

\* Field edits, saves, tab switches, bulk closes and deletions over a store
\* that starts with one request: what sets and what clears a tab's dirty
\* flag. A deletion is asked for when no call is awaited.
NextDirty ==
  \/ \E r \in 1..MaxReqId : LoadRequest(r)
  \/ \E u \in Urls : EditField(u)
  \/ \E t \in 0..MaxTabCounter : TabClick(t)
  \/ \E t \in 0..MaxTabCounter : CloseOtherTabs(t)
  \/ HandleSaveClick
  \/ HandleSaveConfirm(currentRequest.name)
  \/ \E i \in 1..MaxInflight : SaveComplete(i)
  \/ \E i \in 1..MaxInflight : SaveFailed(i)
  \/ \E r \in 1..MaxReqId : inflight = <<>> /\ DeleteRequest(r)
  \/ ConfirmDismiss
  \/ ConfirmOk
  \/ \E i \in 1..MaxInflight : DeleteComplete(i)
  \/ \E i \in 1..MaxInflight : LoadComplete(i)
  \/ \E i \in 1..MaxInflight : ServeSave(i)
  \/ \E i \in 1..MaxInflight : ServeDelete(i)
  \/ \E i \in 1..MaxInflight : ServeLoad(i)

SpecDirty == InitParams /\ [][NextDirty]_vars

\* --------------------------------------------------------- tab overflow
\* the width the strip keeps for its buttons, l.230
OverflowMargin == 70

\* getBoundingClientRect().right of a rendered tab and of the tab strip
TabRights == {120, 130, 131, 140}
ContainerRights == {200, 201}

\* the right edges of n tabs rendered side by side
Layouts(n) ==
  {f \in [1..n -> TabRights] : \A k \in 1..(n - 1) : f[k] < f[k + 1]}

\* checkOverflow() with >= for >
checkOverflowAtEdge(tabs, rights, right) ==
  LET containerRight == right - OverflowMargin
      ids == [k \in 1..Len(tabs) |-> tabs[k].id]
  IN  SelectSeqIdx(ids, {k \in 1..Len(tabs) : rights[k] >= containerRight}, 1)

\* checkOverflow(), l.228-239: the ids of the rendered tabs (one element
\* .editor-tab[data-tab-id] per open tab, l.870-871) whose right edge is
\* beyond the strip's right edge less the margin, in the order of the tabs
checkOverflow(tabs, rights, right) ==
  LET containerRight == right - OverflowMargin
      ids == [k \in 1..Len(tabs) |-> tabs[k].id]
  IN  SelectSeqIdx(ids, {k \in 1..Len(tabs) : rights[k] > containerRight}, 1)

\* the layout effect's state after a run of checkOverflow: overflowTabs
\* (useState, l.169), the dependencies of the run and the layout it read
overflowState(rights, right) ==
  [fn |-> "checkOverflow", deps |-> <<openTabs, activeTabId>>,
   rights |-> rights, right |-> right,
   overflowTabs |-> checkOverflow(openTabs, rights, right)]

\* the effect has run for the tab list and the active tab of this render,
\* l.244
EffectsDone ==
  pureCall.fn = "checkOverflow" /\ pureCall.deps = <<openTabs, activeTabId>>

\* the effect of l.225-244 after a render in which openTabs or activeTabId
\* has changed
CheckOverflowEffect ==
  /\ ~EffectsDone
  /\ \E rights \in Layouts(Len(openTabs)), right \in ContainerRights :
       pureCall' = overflowState(rights, right)
  /\ UNCHANGED appVars

\* the ResizeObserver's callback, l.241-242: the strip has a new width and
\* the tabs may have moved
ContainerResized ==
  /\ EffectsDone
  /\ \E rights \in Layouts(Len(openTabs)), right \in ContainerRights :
       /\ right # pureCall.right
       /\ pureCall' = overflowState(rights, right)
  /\ UNCHANGED appVars

\* the secondary list, l.887: openTabs.filter(t => overflowTabs.includes(t.id))
overflowMenu ==
  SelectSeqIdx(openTabs,
               {k \in 1..Len(openTabs) :
                  \E j \in 1..Len(pureCall.overflowTabs) :
                    pureCall.overflowTabs[j] = openTabs[k].id}, 1)

\* onClick of an item of the secondary list, l.888
OverflowItemClick(t) ==
  /\ \E k \in 1..Len(overflowMenu) : overflowMenu[k].id = t
  /\ TabClick(t)

InitOverflow ==
  /\ Mounted
  /\ \E rights \in Layouts(1), right \in ContainerRights :
       pureCall = overflowState(rights, right)
  /\ srvReqs = ParamRequests
  /\ srvFolders = <<>>
  /\ srvHistory = {"u1"}
  /\ nextReqId = Len(srvReqs) + 1

\* The tab strip and its overflow list: the effect runs after the render of
\* a change and before the next event.
NextOverflow ==
  \/ CheckOverflowEffect
  \/ ContainerResized
  \/ \E r \in 1..MaxReqId : EffectsDone /\ LoadRequest(r)
  \/ EffectsDone /\ NewRequest
  \/ \E u \in Urls : EffectsDone /\ EditField(u)
  \/ \E t \in 0..MaxTabCounter : EffectsDone /\ TabClick(t)
  \/ \E t \in 0..MaxTabCounter : EffectsDone /\ OverflowItemClick(t)
  \/ \E t \in 0..MaxTabCounter : EffectsDone /\ CloseTab(t)
  \/ \E i \in 1..MaxInflight : EffectsDone /\ LoadComplete(i)
  \/ \E i \in 1..MaxInflight : EffectsDone /\ ServeLoad(i)

SpecOverflow == InitOverflow /\ [][NextOverflow]_vars

\* A request dragged into the folders while its tab is open and saved: the
\* pointer hovers the middle of a folder row, the drop is made on that row,
\* a drag or a save starts when no call is awaited, and the tree and the
\* save button are clicked when nothing is dragged.
NextMove ==
  \/ \E d \in TreeRows :
       inflight = <<>> /\ d.type = "request" /\ HandleDragStart(d)
  \/ \E f \in 1..MaxFolderId : FolderRowDragOver(f, RowHeight \div 2)
  \/ DropOnRow
  \/ HandleDragEnd
  \/ \E i \in 1..MaxInflight : DropComplete(i)
  \/ \E i \in 1..MaxInflight : ServeDrop(i)
  \/ \E r \in 1..MaxReqId : dragGesture = "idle" /\ LoadRequest(r)
  \/ inflight = <<>> /\ dragGesture = "idle" /\ HandleSaveClick
  \/ HandleSaveConfirm(currentRequest.name)
  \/ \E i \in 1..MaxInflight : SaveComplete(i)
  \/ \E i \in 1..MaxInflight : ServeSave(i)
  \/ \E i \in 1..MaxInflight : LoadComplete(i)
  \/ \E i \in 1..MaxInflight : ServeLoad(i)

SpecMove == InitDrag /\ [][NextMove]_vars

\* The save panel while a save is awaited: the panel stays open until the
\* save completes and takes a second confirmation.
NextResave ==
  \/ \E u \in Urls : EditField(u)
  \/ HandleSaveClick
  \/ SavePanelDismiss
  \/ HandleSaveConfirm(currentRequest.name)
  \/ HandleSaveConfirmAgain(currentRequest.name)
  \/ \E i \in 1..MaxInflight : SaveComplete(i)
  \/ \E i \in 1..MaxInflight : SaveFailed(i)
  \/ \E i \in 1..MaxInflight : LoadComplete(i)
  \/ \E i \in 1..MaxInflight : ServeSave(i)
  \/ \E i \in 1..MaxInflight : ServeLoad(i)

SpecResave == Init /\ [][NextResave]_vars

\* Executing the request on show between tab clicks, closed tabs and the
\* deletion of a request with an open tab; the store holds one request.
InitExecute ==
  /\ Mounted
  /\ pureCall = NoCall
  /\ srvReqs = ParamRequests
  /\ srvFolders = <<>>
  /\ srvHistory = {"u1"}
  /\ nextReqId = Len(srvReqs) + 1

NextExecute ==
  \/ \E r \in 1..MaxReqId : LoadRequest(r)
  \/ \E u \in Urls : EditField(u)
  \/ \E t \in 0..MaxTabCounter : TabClick(t)
  \/ \E t \in 0..MaxTabCounter : CloseTab(t)
  \/ ExecuteRequest
  \/ \E i \in 1..MaxInflight : ExecuteComplete(i)
  \/ \E i \in 1..MaxInflight : ExecuteFailed(i)
  \/ \E r \in 1..MaxReqId : DeleteRequest(r)
  \/ ConfirmDismiss
  \/ ConfirmOk
  \/ \E i \in 1..MaxInflight : DeleteComplete(i)
  \/ \E i \in 1..MaxInflight : LoadComplete(i)
  \/ \E i \in 1..MaxInflight : ServeExecute(i)
  \/ \E i \in 1..MaxInflight : ServeDelete(i)
  \/ \E i \in 1..MaxInflight : ServeLoad(i)

SpecExecute == InitExecute /\ [][NextExecute]_vars

\* Dragging the rows of the request tree; a drag starts when the calls of
\* the drags before it have ended.
NextDrag ==
  \/ \E d \in TreeRows : inflight = <<>> /\ HandleDragStart(d)
  \/ \E f \in 1..MaxFolderId, y \in 0..RowHeight : FolderRowDragOver(f, y)
  \/ \E r \in 1..MaxReqId, y \in 0..RowHeight : RequestRowDragOver(r, y)
  \/ DropOnRow
  \/ DropOnTreeView
  \/ HandleDragEnd
  \/ \E i \in 1..MaxInflight : DropComplete(i)
  \/ \E i \in 1..MaxInflight : DropFailed(i)
  \/ \E i \in 1..MaxInflight : LoadComplete(i)
  \/ \E i \in 1..MaxInflight : LoadFailed(i)
  \/ \E i \in 1..MaxInflight : ServeDrop(i)
  \/ \E i \in 1..MaxInflight : ServeLoad(i)

SpecDrag == InitDrag /\ [][NextDrag]_vars

\* Dragging the rows of a list of standalone requests while one of them is
\* being deleted; the pointer hovers the upper edge of the rows, the drops
\* are made on the gap indicators between the rows, and the confirmation
\* stays open until the deletion is over.
ListedRequests ==
  [r \in 1..MaxListedReqId |->
     [name |-> "n1", url |-> "u1", headers |-> <<>>, query_params |-> <<>>,
      folder_id |-> NoId, sort_order |-> r - 1]]

InitList ==
  /\ Mounted
  /\ pureCall = NoCall
  /\ srvReqs = ListedRequests
  /\ srvFolders = <<>>
  /\ srvHistory = {"u1"}
  /\ nextReqId = Len(srvReqs) + 1

NextList ==
  \/ DeleteRequest(MaxListedReqId)
  \/ ConfirmOk
  \/ \E i \in 1..MaxInflight : DeleteComplete(i)
  \/ \E i \in 1..MaxInflight : ServeDelete(i)
  \/ \E d \in TreeRows : HandleDragStart(d)
  \/ \E r \in 1..MaxListedReqId : RequestRowDragOver(r, 0)
  \/ DropOnTreeView
  \/ HandleDragEnd
  \/ \E i \in 1..MaxInflight : DropComplete(i)
  \/ \E i \in 1..MaxInflight : LoadComplete(i)
  \/ \E i \in 1..MaxInflight : ServeDrop(i)
  \/ \E i \in 1..MaxInflight : ServeLoad(i)

SpecList == InitList /\ [][NextList]_vars

\* The functions of utils/dragUtils, each called once on arguments drawn
\* from small sets: sibling lists of distinct ids, ids in and out of the
\* list, pointer and row geometry, drag kinds and drop targets.
ItemIds == 1..MaxItemId

SiblingLists ==
  {items \in UNION {[1..n -> ItemIds] : n \in 0..MaxItemId} :
     \A i, j \in 1..Len(items) : i # j => items[i] # items[j]}

ReorderCalls ==
  [fn : {"reorderList"}, items : SiblingLists,
   dragId : 1..(MaxItemId + 1), refId : 1..(MaxItemId + 1),
   position : {"before", "after"}, done : {FALSE}, out : {<<>>}]

GapCalls ==
  [fn : {"calcGapPosition"}, mouseY : 0..MaxMouseY, top : 0..MaxTop,
   height : 0..MaxHeight, done : {FALSE}, out : {"none"}]

DropTargets ==
  [type : {"gap", "folder", "none"}, position : {"before", "none"},
   refId : {NoId, 1}, refType : {"request", "folder", "none"},
   targetFolderId : {NoId, 1}]

ValidDropCalls ==
  [fn : {"isValidDrop"}, dragType : {"request", "folder", "environment"},
   target : DropTargets, done : {FALSE}, out : {FALSE}]

InitDragUtils ==
  /\ Mounted
  /\ srvReqs = <<>>
  /\ srvFolders = <<>>
  /\ srvHistory = {}
  /\ nextReqId = 1
  /\ pureCall \in ReorderCalls \cup GapCalls \cup ValidDropCalls

NextDragUtils ==
  \/ ReorderList
  \/ CalcGapPosition
  \/ IsValidDrop

SpecDragUtils == InitDragUtils /\ [][NextDragUtils]_vars

\* The sibling lookups, each called once on a tree the collaborator can
\* return: folders nested without cycles, every request standalone or in
\* one of the folders, and an id of the tree or of none of its items.
TreeFolderStores ==
  {flds \in UNION {[1..n -> [parent_folder_id : 0..n, sort_order : {0}]] :
                     n \in 0..MaxTreeFolders} :
     \A f \in DOMAIN flds :
       f \notin ancestorsOf(flds, f, Cardinality(DOMAIN flds))}

TreeRequestStores(flds) ==
  UNION {[1..m -> [folder_id : {NoId} \cup DOMAIN flds, sort_order : {0, 1}]] :
           m \in 0..MaxTreeRequests}

SiblingCalls ==
  {[fn |-> fn, reqs |-> reqs, flds |-> flds, refId |-> refId,
    done |-> FALSE, out |-> <<>>] :
     fn \in {"getSiblingRequests", "getSiblingFolders"},
     flds \in TreeFolderStores,
     reqs \in UNION {TreeRequestStores(flds) : flds \in TreeFolderStores},
     refId \in 1..(MaxTreeFolders + 1)}

InitSiblings ==
  /\ Mounted
  /\ srvReqs = <<>>
  /\ srvFolders = <<>>
  /\ srvHistory = {}
  /\ nextReqId = 1
  /\ pureCall \in SiblingCalls
  /\ \A r \in DOMAIN pureCall.reqs :
       pureCall.reqs[r].folder_id \in {NoId} \cup DOMAIN pureCall.flds

NextSiblings ==
  \/ GetSiblingRequests
  \/ GetSiblingFolders

SpecSiblings == InitSiblings /\ [][NextSiblings]_vars

\* ====================================================== checked claims
HasTab(tabs, id) == \E k \in 1..Len(tabs) : tabs[k].id = id
TabOf(tabs, id) == tabs[CHOOSE k \in 1..Len(tabs) : tabs[k].id = id]
TabsOfRequest(tabs, r) == {k \in 1..Len(tabs) : tabs[k].requestId = r}

\* steps seen from outside: an awaited save leaves the list of calls in
\* flight, served (its continuation issues the reload) or failed
SaveSucceeds(i) ==
  /\ i \in 1..Len(inflight)
  /\ inflight[i].kind = "save" /\ inflight[i].phase = "ok"
  /\ inflight' = Append(RemoveAt(inflight, i), LoadOp)

SaveFails(i) ==
  /\ i \in 1..Len(inflight)
  /\ inflight[i].kind = "save" /\ inflight[i].phase = "sent"
  /\ inflight' = RemoveAt(inflight, i)

\* C1: no two open tabs carry the same defined requestId.
C1_UniqueRequestId ==
  \A i, j \in 1..Len(openTabs) :
    (i # j /\ openTabs[i].requestId # NoId)
      => openTabs[i].requestId # openTabs[j].requestId

C3_CycleDropRejected ==
  [][(/\ DropOnRow \/ DropOnTreeView
      /\ dragData.type = "folder" /\ dropTarget.type = "folder"
      /\ inSubtree(folders, dragData.id, dropTarget.targetFolderId))
       => /\ inflight' = inflight
          /\ UNCHANGED <<folders, srvFolders>>]_vars

\* C4: an edit made while the tab's save is awaited survives the save, and
\* the save does not leave the tab clean with content that was not sent.
C4_SaveAtomicWithEdits ==
  [][\A i \in 1..MaxInflight :
       (SaveSucceeds(i) /\ HasTab(openTabs, inflight[i].active))
         => LET op == inflight[i]
                before == TabOf(openTabs, op.active)
                after == TabOf(openTabs', op.active)
            IN  /\ after.url = before.url
                /\ ~after.dirty => after.url = op.cur.url]_vars

\* C5: a successful save of a persisted tab updates that request and keeps
\* the tab's requestId, a successful save of a draft binds the created id;
\* either way the saved tab ends clean and carries the override name.
C5_SaveBindsAndCleans ==
  [][\A i \in 1..MaxInflight :
       (SaveSucceeds(i) /\ HasTab(openTabs, inflight[i].tab))
         => LET op == inflight[i]
                after == TabOf(openTabs', op.tab)
            IN  /\ HasTab(openTabs', op.tab)
                /\ after.requestId = op.id
                /\ op.cur.id # NoId => op.id = op.cur.id
                /\ ~after.dirty
                /\ op.name # "" => after.name = op.name]_vars

\* C6: a failed save changes no tab (dirty flag, requestId and everything
\* else stay) and sets the user-visible error.
C6_FailedSaveKeepsTabs ==
  [][\A i \in 1..MaxInflight :
       SaveFails(i) => /\ openTabs' = openTabs
                       /\ activeTabId' = activeTabId
                       /\ error' # "none"]_vars

\* a save failed and left a dirty draft behind
C6_Witness ==
  /\ error = "save"
  /\ \E k \in 1..Len(openTabs) :
       openTabs[k].dirty /\ openTabs[k].requestId = NoId

\* what close(tabId) has to leave: the other tabs in their order, and the
\* neighbour at index min(i, n-2) active when the closed tab was active
ClosedAsSpecified(t) ==
  LET n == Len(openTabs)
      i == (CHOOSE k \in 1..n : openTabs[k].id = t) - 1
      rest == [k \in 1..(n - 1) |->
                 IF k <= i THEN openTabs[k] ELSE openTabs[k + 1]]
  IN  /\ openTabs' = rest
      /\ activeTabId' = IF activeTabId # t THEN activeTabId
                        ELSE IF n = 1 THEN NoTab
                        ELSE rest[Min(i, n - 2) + 1].id

\* C7: close(tabId) removes that tab only and activates the neighbour when
\* the closed tab was active; closeTab runs from the tab's close button and
\* from the continuation of a confirmed delete.
C7_CloseActivatesNeighbour ==
  [][\A t \in TabIds :
       (\/ CloseTab(t)
        \/ \E i \in 1..MaxInflight :
             DeleteComplete(i) /\ inflight[i].tab = t)
         => ClosedAsSpecified(t)]_vars

\* a tab with no requestId, the empty defaults and dirty = true
BlankDraft(t) ==
  /\ t.requestId = NoId /\ t.name = DefaultName /\ t.url = ""
  /\ t.folder_id = NoId /\ t.response = "null" /\ t.dirty

\* C8: new() appends one dirty blank draft and activates it, whatever is
\* open already; the session starts with such a draft.
C8_NewAppendsDirtyDraft ==
  /\ (Len(openTabs) = 1 /\ BlankDraft(openTabs[1])
        /\ activeTabId = openTabs[1].id)
  /\ [][NewRequest =>
          /\ Len(openTabs') = Len(openTabs) + 1
          /\ SubSeq(openTabs', 1, Len(openTabs)) = openTabs
          /\ BlankDraft(openTabs'[Len(openTabs')])
          /\ ~HasTab(openTabs, openTabs'[Len(openTabs')].id)
          /\ activeTabId' = openTabs'[Len(openTabs')].id]_vars

\* two blank drafts are open and the later one is active
C8_Witness ==
  \E i, j \in 1..Len(openTabs) :
    /\ i < j /\ BlankDraft(openTabs[i]) /\ BlankDraft(openTabs[j])
    /\ activeTabId = openTabs[j].id

\* C9: open(request) of a request without a tab appends a clean tab linked
\* to it and seeded from it, and activates it; a clean linked tab becomes
\* dirty only by a field edit applied to it.
C9_OpenAppendsCleanTab ==
  [][/\ \A r \in 1..MaxReqId :
          (LoadRequest(r) /\ TabsOfRequest(openTabs, r) = {})
            => LET new == openTabs'[Len(openTabs')]
               IN  /\ Len(openTabs') = Len(openTabs) + 1
                   /\ SubSeq(openTabs', 1, Len(openTabs)) = openTabs
                   /\ new.requestId = r
                   /\ new.name = requests[r].name
                   /\ new.url = requests[r].url
                   /\ new.folder_id = requests[r].folder_id
                   /\ ~new.dirty
                   /\ ~HasTab(openTabs, new.id)
                   /\ activeTabId' = new.id
     /\ \A t \in TabIds :
          (/\ HasTab(openTabs', t)
           /\ TabOf(openTabs, t).requestId # NoId
           /\ ~TabOf(openTabs, t).dirty
           /\ TabOf(openTabs', t).dirty)
            => /\ t = activeTabId
               /\ TabOf(openTabs', t).url # TabOf(openTabs, t).url]_vars

\* a tab linked to a request of the tree is open, clean and active
C9_Witness ==
  \E k \in 1..Len(openTabs) :
    /\ openTabs[k].requestId \in DOMAIN requests
    /\ ~openTabs[k].dirty
    /\ openTabs[k].url = requests[openTabs[k].requestId].url
    /\ activeTabId = openTabs[k].id

\* C10: wherever the editor takes a field edit, the edit changes exactly
\* one tab, the active one: it gets the patch and dirty = true; the other
\* tabs and the tab order stay.
C10_EditChangesActiveTabOnly ==
  \A u \in Urls :
    (~crashed /\ ~ModalOpen /\ HasCurrentTab /\ u # currentRequest.url)
      => /\ Len(editedTabs(u)) = Len(openTabs)
         /\ \E k \in 1..Len(openTabs) :
              /\ openTabs[k].id = activeTabId
              /\ editedTabs(u)[k] = [openTabs[k] EXCEPT !.url = u,
                                                        !.dirty = TRUE]
              /\ \A j \in 1..Len(openTabs) :
                   j # k => editedTabs(u)[j] = openTabs[j]

\* ------------------------------------------------------------ reordering
IndexOf(s, x) == CHOOSE k \in 1..Len(s) : s[k] = x

Without(s, x) == SelectSeqIdx(s, {k \in 1..Len(s) : s[k] # x}, 1)

Reordered == pureCall.fn = "reorderList" /\ pureCall.done

InList(s, x) == \E k \in 1..Len(s) : s[k] = x

\* C11: for a list of distinct ids and two different items a and b of it,
\* reordering a before b yields a list where a is immediately before b,
\* reordering a after b one where a is immediately after b, and the items
\* other than a keep their relative order.
C11_ReorderPlacesNextToRef ==
  (/\ Reordered
   /\ InList(pureCall.items, pureCall.dragId)
   /\ InList(pureCall.items, pureCall.refId)
   /\ pureCall.dragId # pureCall.refId)
  => /\ InList(pureCall.out, pureCall.dragId)
     /\ InList(pureCall.out, pureCall.refId)
     /\ pureCall.position = "before"
          => IndexOf(pureCall.out, pureCall.dragId) + 1
               = IndexOf(pureCall.out, pureCall.refId)
     /\ pureCall.position = "after"
          => IndexOf(pureCall.out, pureCall.dragId)
               = IndexOf(pureCall.out, pureCall.refId) + 1
     /\ Without(pureCall.out, pureCall.dragId)
          = Without(pureCall.items, pureCall.dragId)
     /\ Len(pureCall.out) = Len(pureCall.items)

C11_Witness ==
  /\ Reordered
  /\ pureCall.items = <<1, 2, 3>>
  /\ pureCall.dragId = 3
  /\ pureCall.refId = 1
  /\ pureCall.position = "before"
  /\ pureCall.out = <<3, 1, 2>>

\* C12: reordering with a dragId that is the id of no item of the list
\* returns the list unchanged, for every refId and either position.
C12_ReorderMissingDragUnchanged ==
  (Reordered /\ ~InList(pureCall.items, pureCall.dragId))
  => pureCall.out = pureCall.items

C12_Witness ==
  /\ Reordered
  /\ pureCall.items = <<1, 2>>
  /\ pureCall.dragId = 3
  /\ pureCall.refId = 1
  /\ pureCall.out = <<1, 2>>

\* C13: the gap position is "before" when the pointer is strictly above
\* the midpoint top + height/2 and "after" when it is at or below it.
\* The midpoint of an odd height lies half a unit below top + height \div 2.
StrictlyAboveMid(y, top, height) ==
  IF height % 2 = 0 THEN y < top + height \div 2
  ELSE y <= top + height \div 2

C13_GapPositionByMidpoint ==
  (pureCall.fn = "calcGapPosition" /\ pureCall.done)
  => pureCall.out =
       IF StrictlyAboveMid(pureCall.mouseY, pureCall.top, pureCall.height)
       THEN "before" ELSE "after"

C13_Witness ==
  /\ pureCall.fn = "calcGapPosition" /\ pureCall.done
  /\ pureCall.height = 4
  /\ pureCall.mouseY = pureCall.top + 2
  /\ pureCall.out = "after"

\* C16: a gap target is accepted exactly when the dragged kind is the kind
\* of the target's reference item (request on request, folder on folder), a
\* folder target is accepted for a dragged request and for a dragged folder,
\* and every other combination is rejected.
C16_ValidDropTable ==
  (pureCall.fn = "isValidDrop" /\ pureCall.done)
  => pureCall.out =
       (\/ /\ pureCall.target.type = "gap"
           /\ pureCall.dragType \in {"request", "folder"}
           /\ pureCall.target.refType = pureCall.dragType
        \/ /\ pureCall.target.type = "folder"
           /\ pureCall.dragType \in {"request", "folder"})

C16_Witness ==
  /\ pureCall.fn = "isValidDrop" /\ pureCall.done
  /\ pureCall.target.type = "gap"
  /\ pureCall.dragType = "request"
  /\ pureCall.target.refType = "folder"
  /\ ~pureCall.out

\* ------------------------------------------------------------- hovering
GapOn(t, f, position) ==
  /\ t.type = "gap"
  /\ t.refId = f
  /\ t.refType = "folder"
  /\ t.position = position

ContainerOn(t, f) == t.type = "folder" /\ t.targetFolderId = f

\* C14: while an item is dragged, hovering a folder row resolves by three
\* zones of the row's height: strictly inside the top quarter to a gap
\* "before" the folder, strictly inside the bottom quarter to a gap "after"
\* it, and in the middle half, both zone boundaries and the exact centre
\* included, to the folder as a container.
C14_FolderRowZones ==
  [][\A f \in 1..MaxFolderId, y \in 0..RowHeight :
       (FolderRowDragOver(f, y) /\ dragData # NoDrag)
       => /\ 4 * y < RowHeight => GapOn(dropTarget', f, "before")
          /\ 4 * y > 3 * RowHeight => GapOn(dropTarget', f, "after")
          /\ (4 * y >= RowHeight /\ 4 * y <= 3 * RowHeight)
               => ContainerOn(dropTarget', f)]_vars

C14_Witness ==
  /\ dragGesture = "drag"
  /\ dragData # NoDrag
  /\ GapOn(dropTarget, 2, "after")

\* C15: whenever the drop target is a gap, the kind of its reference item
\* is the kind of the item being dragged.
C15_GapTargetMatchesDragKind ==
  (dragData # NoDrag /\ dropTarget.type = "gap")
  => dropTarget.refType = dragData.type

\* ------------------------------------------------- failure and reloading
Reloads(calls) == Len(SelectSeq(calls, LAMBDA op : op.kind = "load"))

\* C17: when the persistence call of a structural mutation (a drop, the
\* deletion of a request) fails, no reload is issued and the error shown to
\* the user is set.
C17_FailedMutationSurfacesError ==
  [][\A i \in 1..MaxInflight :
       (DropFailed(i) \/ DeleteFailed(i))
       => /\ Reloads(inflight') = Reloads(inflight)
          /\ error' # "none"]_vars

\* C18: after a successful save or deletion (the collaborator's requests
\* are no longer those of the start), once every reload issued so far has
\* completed (no call is in flight and none has failed), the tree and the
\* list of standalone requests in memory are those the collaborator holds.
C18_ReloadsConverge ==
  (/\ ~crashed
   /\ inflight = <<>>
   /\ error = "none"
   /\ srvReqs \notin InitialRequests)
  => /\ requests = srvReqs
     /\ folders = srvFolders

\* C19: a reload whose list calls all succeeded replaces the snapshots of
\* environments, history, folder tree and requests together, each by the
\* list of the response; a reload with a failed call replaces none of them
\* and sets the error.
C19_ReloadReplacesWholesale ==
  [][\A i \in 1..MaxInflight :
       /\ LoadComplete(i)
            => /\ environments' = inflight[i].data.environments
               /\ history' = inflight[i].data.history
               /\ folders' = inflight[i].data.folders
               /\ requests' = inflight[i].data.requests
       /\ LoadFailed(i)
            => /\ UNCHANGED snapshotVars
               /\ error' # "none"]_vars

C19_Witness ==
  /\ error = "load"
  /\ inflight = <<>>
  /\ environments = PersistedEnvironments
  /\ history = srvHistory
  /\ requests # srvReqs

\* ---------------------------------------------------------- end of a drag
SlotsEmpty(payload, target) == payload = NoDrag /\ target = NoDrop

\* the step on which a run of handleDrop ends: its call has failed, or the
\* reload it awaited has returned
DropEnds(i) ==
  \/ DropFailed(i)
  \/ inflight[i].then = "finally" /\ (LoadComplete(i) \/ LoadFailed(i))

\* C20: the step that ends a drag, a drop whose call and reload have run to
\* completion or have failed, or a drag-end, leaves the payload slot and the
\* target slot empty; a drag-end without a drop issues no call.
C20_DragEndClearsSlots ==
  [][/\ \A i \in 1..Len(inflight) :
          DropEnds(i) => SlotsEmpty(dragData', dropTarget')
     /\ HandleDragEnd
          => /\ SlotsEmpty(dragData', dropTarget')
             /\ dragGesture = "drag" => inflight' = inflight]_vars

C20_Witness ==
  /\ dragGesture = "idle"
  /\ inflight = <<>>
  /\ SlotsEmpty(dragData, dropTarget)
  /\ error = "none"
  /\ srvFolders # TreeFolders

\* ------------------------------------------------------- closing in bulk
\* C21: closing the others of an open tab leaves exactly that tab, as it
\* was, and makes it the active one; for an id that is not open it leaves
\* the tabs and the active tab as they are; closing all leaves no tab and
\* no active tab.
C21_BulkClose ==
  [][/\ \A t \in 0..MaxTabCounter :
          /\ CloseOtherTabs(t)
               => /\ openTabs' = <<TabOf(openTabs, t)>>
                  /\ activeTabId' = t
          /\ ~HasTab(openTabs, t)
               => closeOtherTabs(openTabs, activeTabId, t)
                    = [tabs |-> openTabs, active |-> activeTabId]
     /\ CloseAllTabs
          => /\ openTabs' = <<>>
             /\ activeTabId' = NoTab]_vars

C21_Witness ==
  /\ Len(openTabs) = 1
  /\ openTabs[1].id = 1
  /\ activeTabId = 1
  /\ tabCounter = MaxTabCounter

\* ------------------------------------------------------ calls of a drop
\* a drop gesture with a payload and a target, and the calls it issues
DropGesture ==
  /\ DropOnRow \/ DropOnTreeView
  /\ dragData # NoDrag
  /\ dropTarget # NoDrop

IssuedCalls == SubSeq(inflight', Len(inflight) + 1, Len(inflight'))

UpdateCalls == {"updateRequest", "updateFolder"}

\* C22: a drop on a folder as a container issues one call, the update that
\* sets the parent of the dragged item to the target folder, and no
\* reorder call; a drop on a gap issues no update call.
C22_ContainerDropIsOneUpdate ==
  [][DropGesture
     => /\ dropTarget.type = "folder"
             => /\ Len(IssuedCalls) = 1
                /\ IssuedCalls[1].kind =
                     (IF dragData.type = "request" THEN "updateRequest"
                      ELSE "updateFolder")
                /\ IssuedCalls[1].id = dragData.id
                /\ IssuedCalls[1].folder = dropTarget.targetFolderId
        /\ dropTarget.type = "gap"
             => \A k \in 1..Len(IssuedCalls) :
                  IssuedCalls[k].kind \notin UpdateCalls]_vars

\* ------------------------------------------------------- sibling lookup
\* list is the ids of group, each once, by sort order and then by id
OrderedGroup(list, group, items) ==
  /\ {list[k] : k \in 1..Len(list)} = group
  /\ Len(list) = Cardinality(group)
  /\ \A i, j \in 1..Len(list) :
       i < j => \/ items[list[i]].sort_order < items[list[j]].sort_order
                \/ /\ items[list[i]].sort_order = items[list[j]].sort_order
                   /\ list[i] < list[j]

\* C23: for the id of a request of the tree, standalone or in a folder at
\* any depth, the lookup returns the ordered list of the requests of the
\* same folder, the request included; for the id of a folder, the ordered
\* list of the folders of the same parent; for an id of none of them, the
\* empty list.
C23_SiblingLookup ==
  /\ (pureCall.fn = "getSiblingRequests" /\ pureCall.done)
       => IF pureCall.refId \in DOMAIN pureCall.reqs
          THEN OrderedGroup(pureCall.out,
                 {r \in DOMAIN pureCall.reqs :
                    pureCall.reqs[r].folder_id
                      = pureCall.reqs[pureCall.refId].folder_id},
                 pureCall.reqs)
          ELSE pureCall.out = <<>>
  /\ (pureCall.fn = "getSiblingFolders" /\ pureCall.done)
       => IF pureCall.refId \in DOMAIN pureCall.flds
          THEN OrderedGroup(pureCall.out,
                 {f \in DOMAIN pureCall.flds :
                    pureCall.flds[f].parent_folder_id
                      = pureCall.flds[pureCall.refId].parent_folder_id},
                 pureCall.flds)
          ELSE pureCall.out = <<>>

C23_Witness ==
  /\ pureCall.fn = "getSiblingRequests" /\ pureCall.done
  /\ pureCall.refId = 1
  /\ DOMAIN pureCall.reqs = {1, 2}
  /\ pureCall.reqs[1].folder_id = 3
  /\ pureCall.flds[3].parent_folder_id = 2
  /\ pureCall.flds[2].parent_folder_id = 1
  /\ pureCall.out = <<2, 1>>

\* ----------------------------------------------------------- stale drops
ReorderCalls24 == {"reorderRequests", "reorderFolders"}

\* a reorder call of a gap drop made when the dragged item or the reference
\* item was no longer in the list the client held: the list sent is that of
\* no item, or it lacks the dragged item
StaleCall(op) ==
  /\ op.kind \in ReorderCalls24
  /\ \/ op.order = <<>>
     \/ \A k \in 1..Len(op.order) : op.order[k] # op.id

PersistedOrder(reqs) == SortIds(DOMAIN reqs, reqs)

\* C24: a gap drop whose dragged item or reference item is no longer in the
\* tree is a silent no-op: it sets no error and the call it issues leaves
\* the persisted order of the requests as it is.
C24_StaleGapDropIsNoOp ==
  [][/\ (DropOnTreeView /\ \E k \in 1..Len(IssuedCalls) :
                             StaleCall(IssuedCalls[k]))
          => error' = error
     /\ \A i \in 1..MaxInflight :
          (ServeDrop(i) /\ StaleCall(inflight[i]))
          => PersistedOrder(srvReqs') = PersistedOrder(srvReqs)]_vars

\* ----------------------------------------------------------- failed drop
\* C25: a drop whose call fails leaves the folder tree, the list of
\* requests, the tabs and the active tab in memory as they were: neither
\* the drop nor the failure of its call changes them.
C25_FailedDropFrame ==
  [][(DropOnRow \/ DropOnTreeView \/ \E i \in 1..MaxInflight : DropFailed(i))
     => UNCHANGED <<folders, requests, openTabs, activeTabId>>]_vars

C25_Witness ==
  /\ error = "drop"
  /\ inflight = <<>>
  /\ SlotsEmpty(dragData, dropTarget)
  /\ folders = TreeFolders
  /\ requests = TreeRequests
  /\ srvFolders = TreeFolders

\* ------------------------------------------------------------ param rows
EndsWithEmptyRow(rows) == Len(rows) > 0 /\ rows[Len(rows)].key = ""

\* C26: in every state the headers and the query parameters of each open
\* tab are not empty and end with a row whose key is empty.
C26_TrailingEmptyRow ==
  \A k \in 1..Len(openTabs) :
    /\ EndsWithEmptyRow(openTabs[k].headers)
    /\ EndsWithEmptyRow(openTabs[k].queryParams)

C26_Witness ==
  /\ Len(openTabs) = 1
  /\ openTabs[1].requestId # NoId
  /\ openTabs[1].dirty
  /\ openTabs[1].headers = <<emptyParam>>
  /\ Len(openTabs[1].queryParams) = 2
  /\ openTabs[1].queryParams[1].key = "a"
  /\ ~openTabs[1].queryParams[1].enabled

\* ------------------------------------------------------------ dirty flag
\* the tab the editor shows, l.112
shownTab ==
  LET i == FindIndex(openTabs, LAMBDA t : t.id = activeTabId)
  IN  IF i > 0 THEN i ELSE 1

\* a tab that is dirty before the step and clean after it
Cleared(k, j) ==
  /\ openTabs[k].id = openTabs'[j].id
  /\ openTabs[k].dirty
  /\ ~openTabs'[j].dirty

ClearedOnlyBySave ==
  \A k \in 1..Len(openTabs), j \in 1..Len(openTabs') :
    Cleared(k, j)
      => \E i \in 1..Len(inflight) :
           /\ inflight[i].kind = "save" /\ inflight[i].phase = "ok"
           /\ inflight[i].tab = openTabs[k].id
           /\ SaveComplete(i)

EditSetsDirty ==
  \A u \in Urls :
    (~crashed /\ ~ModalOpen /\ HasCurrentTab /\ u # currentRequest.url)
      => editedTabs(u)[shownTab].dirty

\* C27: a tab's dirty flag goes from true to false only in the step in
\* which a save of that tab completes with success, and a field edit leaves
\* the tab the editor shows dirty.
C27_DirtyLifecycle == []EditSetsDirty /\ [][ClearedOnlyBySave]_vars

\* ---------------------------------------------------------------- tab ids
DistinctTabIds ==
  \A k, j \in 1..Len(openTabs) : openTabs[k].id = openTabs[j].id => k = j

\* every id handed out so far is below the counter
IdsBelowCounter == \A id \in TabIds : id < tabCounter

\* the counter never goes back and a tab that a step adds has an id that
\* is not below the counter the step started with
NewIdsFresh ==
  /\ tabCounter' >= tabCounter
  /\ \A id \in TabIds' \ TabIds : id >= tabCounter

\* C28: all open tabs have pairwise distinct ids, and the id of a tab that
\* is created is the id of no tab that exists or existed before: every id
\* in use is below the counter and a new id is not.
C28_TabIdsUnique ==
  [](DistinctTabIds /\ IdsBelowCounter) /\ [][NewIdsFresh]_vars

C28_Witness ==
  /\ Len(openTabs) = 2
  /\ openTabs[1].id = 1
  /\ openTabs[2].id = 2
  /\ openTabs[1].requestId # NoId
  /\ tabCounter = 3

\* ----------------------------------------------------------- tab overflow
\* the ids of the tabs whose right edge is beyond the strip's right edge
\* less 70, for the layout the last computation read
BeyondEdge ==
  {openTabs[k].id : k \in {i \in 1..Len(openTabs) :
                             pureCall.rights[i] > pureCall.right - 70}}

OverflowIds ==
  {pureCall.overflowTabs[k] : k \in 1..Len(pureCall.overflowTabs)}

\* C29: once the overflow computation has run for the rendered tab list,
\* the overflowed set is exactly the ids of the tabs whose right edge is
\* greater than the strip's right edge minus 70; each of them is the id of
\* an open tab and is in the secondary list; and the computation runs as
\* the next step after every change of the tab list or of the active tab.
C29_OverflowExact ==
  /\ [](EffectsDone
         => /\ OverflowIds = BeyondEdge
            /\ OverflowIds \subseteq TabIds
            /\ OverflowIds = {overflowMenu[k].id : k \in 1..Len(overflowMenu)})
  /\ [][~EffectsDone
         => /\ pureCall'.fn = "checkOverflow"
            /\ pureCall'.deps = <<openTabs, activeTabId>>
            /\ UNCHANGED <<openTabs, activeTabId>>]_vars

C29_Witness ==
  /\ EffectsDone
  /\ Len(openTabs) = 2
  /\ pureCall.right = 200
  /\ pureCall.rights[1] = 130
  /\ pureCall.rights[2] = 131
  /\ pureCall.overflowTabs = <<openTabs[2].id>>

\* C30: reorderList returns the list it was given whenever the reference
\* is not among the items that remain once the dragged item is taken out;
\* so it does when an item is dragged onto its own gap.
C30_ReorderMissingRefUnchanged ==
  (Reordered /\ ~InList(Without(pureCall.items, pureCall.dragId),
                        pureCall.refId))
  => pureCall.out = pureCall.items

C30_Witness ==
  /\ Reordered
  /\ pureCall.items = <<1, 2, 3>>
  /\ pureCall.dragId = 3
  /\ pureCall.refId = 3
  /\ pureCall.position = "after"
  /\ pureCall.out = <<1, 2, 3>>

\* ------------------------------------------------------ order of a gap drop
\* the ids of the sibling group of the reference item of the drop target,
\* as the tree in memory has it
RefGroup(kind) ==
  IF kind = "reorderRequests"
  THEN IF dropTarget.refId \in DOMAIN requests
       THEN {r \in DOMAIN requests :
               requests[r].folder_id = requests[dropTarget.refId].folder_id}
       ELSE {}
  ELSE IF dropTarget.refId \in DOMAIN folders
       THEN {f \in DOMAIN folders :
               folders[f].parent_folder_id =
                 folders[dropTarget.refId].parent_folder_id}
       ELSE {}

RefGroupOrder(kind) ==
  IF kind = "reorderRequests"
  THEN getSiblingRequests(requests, dropTarget.refId)
  ELSE SortIds(RefGroup(kind), folders)

PermutationOf(order, S) ==
  /\ Len(order) = Cardinality(S)
  /\ {order[k] : k \in 1..Len(order)} = S

\* C31: the list of ids a gap drop sends to reorderRequests/reorderFolders
\* is a permutation of the ids of the reference item's sibling group, and
\* when the dragged item is not of that group the group's order is sent as
\* it is.
C31_GapDropSendsPermutation ==
  [][DropGesture
     => \A k \in 1..Len(IssuedCalls) :
          IssuedCalls[k].kind \in ReorderCalls24
          => /\ PermutationOf(IssuedCalls[k].order,
                              RefGroup(IssuedCalls[k].kind))
             /\ dragData.id \notin RefGroup(IssuedCalls[k].kind)
                  => IssuedCalls[k].order
                       = RefGroupOrder(IssuedCalls[k].kind)]_vars

\* folder 1 lies in folder 2 and was dropped on a gap of folder 2's row
C31_Witness ==
  /\ 1 \in DOMAIN folders /\ folders[1].parent_folder_id = 2
  /\ dragGesture = "dropped"
  /\ dragData = [type |-> "folder", id |-> 1]
  /\ dropTarget.type = "gap" /\ dropTarget.refId = 2
  /\ \E i \in 1..Len(inflight) :
       /\ inflight[i].kind = "reorderFolders"
       /\ inflight[i].id = 1
       /\ inflight[i].order = <<2>>

\* ------------------------------------------------------------- active tab
\* C32: while a tab is open the active tab id is the id of an open tab, and
\* while none is open it is the empty id.
C32_ActiveTabValid ==
  ~crashed
  => IF Len(openTabs) > 0 THEN activeTabId \in TabIds
     ELSE activeTabId = NoTab

\* -------------------------------------------------- tabs of a deleted request
\* C33: when the completion handler of a confirmed and successful
\* deleteRequest(id) has run, no open tab has requestId = id.
C33_DeleteClosesTab ==
  [][\A i \in 1..Len(inflight) :
       DeleteComplete(i)
       => \A k \in 1..Len(openTabs') :
            openTabs'[k].requestId # inflight[i].id]_vars

\* ------------------------------------------------- save after a re-parenting
\* C34: the update that a save of a tab linked to a persisted request
\* sends leaves the request in the folder it is in: a request that a drop
\* has put into a folder while its tab was open stays there.
C34_SaveKeepsFolder ==
  [][\A i \in 1..Len(inflight) :
       (ServeSave(i) /\ inflight[i].cur.id \in DOMAIN srvReqs)
       => srvReqs'[inflight[i].cur.id].folder_id
            = srvReqs[inflight[i].cur.id].folder_id]_vars

\* ------------------------------------------- save completed on another tab
\* the completion of a save leaves every tab but the saved one as it is
\* (all of them when the saved tab was closed)
SaveFrame(i) ==
  /\ Len(openTabs') = Len(openTabs)
  /\ \A k \in 1..Len(openTabs) :
       openTabs[k].id # inflight[i].tab => openTabs'[k] = openTabs[k]

\* the completion binds the saved tab to the id of the call and clears its
\* dirty flag
SaveApplied(i) ==
  \A k \in 1..Len(openTabs) :
    openTabs[k].id = inflight[i].tab
    => /\ openTabs'[k].requestId = inflight[i].id
       /\ ~openTabs'[k].dirty

\* C35: when the save of a tab completes after another tab was activated
\* during the awaited call, the id and the cleared dirty flag go to the
\* saved tab and every other tab stays as it is; when the saved tab was
\* closed no tab changes.
C35_SaveCompletesOnSavedTab ==
  [][\A i \in 1..Len(inflight) :
       (SaveComplete(i) /\ activeTabId # inflight[i].active)
       => SaveFrame(i) /\ SaveApplied(i)]_vars

\* ------------------------------------------------------------ single create
\* the create calls issued for tab t that are awaited or were just served
CreatesOf(t) ==
  {i \in 1..Len(inflight) :
     /\ inflight[i].kind = "save"
     /\ inflight[i].cur.id = NoId
     /\ inflight[i].tab = t}

\* C36: a draft tab never has more than one create call: a second
\* confirmation of the save panel while the first create is awaited issues
\* no second create.
C36_SingleCreate ==
  \A t \in TabIds : Cardinality(CreatesOf(t)) <= 1

\* ------------------------------------------------------- one call per drop
\* C37: a drop on a row of the tree starts one run of the drop handler,
\* that is one persistence call followed by one reload, and a drop made
\* with no payload or no target starts none.
C37_OneCallPerDrop ==
  [][/\ (DropOnRow /\ dragData # NoDrag /\ dropTarget # NoDrop)
          => Len(IssuedCalls) = 1
     /\ ((DropOnRow \/ DropOnTreeView)
            /\ (dragData = NoDrag \/ dropTarget = NoDrop))
          => IssuedCalls = <<>>]_vars

\* ------------------------------------------------- a drag during a drop
\* C38: the end of an earlier drop (its finally block, run after the reload
\* or after the failure of its call) leaves the payload and the target of a
\* drag that is in progress as they are.
C38_EarlierDropKeepsNewDrag ==
  [][\A i \in 1..Len(inflight) :
       (DropEnds(i) /\ dragGesture = "drag")
       => dragData' = dragData /\ dropTarget' = dropTarget]_vars

\* ------------------------------------------------------ the two drag slots
\* C39: a drop target is in its slot only while a payload is in the other,
\* and a step that empties one of the two slots leaves both of them empty.
C39_TargetImpliesPayload ==
  /\ [](dropTarget # NoDrop => dragData # NoDrag)
  /\ [][(dragData # NoDrag /\ dragData' = NoDrag)
          \/ (dropTarget # NoDrop /\ dropTarget' = NoDrop)
        => dragData' = NoDrag /\ dropTarget' = NoDrop]_vars

\* a target recorded during a drag
C39_Witness ==
  /\ dragGesture = "drag"
  /\ dragData # NoDrag
  /\ dropTarget.type = "gap"

\* ------------------------------------------------- execution and its tab
\* a step that leaves the tabs as they are but for their responses
ResponsesOnly ==
  /\ Len(openTabs') = Len(openTabs)
  /\ \A k \in 1..Len(openTabs) :
       [openTabs'[k] EXCEPT !.response = openTabs[k].response] = openTabs[k]

\* the completion puts the answer on the tab the execution was issued from
ResponseStored(i) ==
  \A k \in 1..Len(openTabs) :
    openTabs[k].id = inflight[i].tab
    => openTabs'[k].response = inflight[i].result

\* C40: an execution puts the response on the tab that was on show when it
\* was issued, also when another tab is active at completion; it changes
\* no tab's dirty flag, fields or requestId; and loading is false after the
\* completion of the execution, successful or failed.
C40_ExecuteStoresOnIssuingTab ==
  [][/\ ExecuteRequest => ResponsesOnly
     /\ \A i \in 1..Len(inflight) :
          /\ ExecuteComplete(i)
               => ResponsesOnly /\ ResponseStored(i) /\ ~loading'
          /\ ExecuteFailed(i) => ResponsesOnly /\ ~loading']_vars

====
